---- MODULE Spec2Model ----
(***************************************************************************)
(* Configuration-scoped caching and reconfiguration layer of the           *)
(* sample-apps repository: EnvironmentManager.temporary_env_vars,          *)
(* validate_env_overrides, SessionManager, FlexibleInstrumentation and the *)
(* request handlers (initialize_app / chat) that drive them.               *)
(***************************************************************************)
EXTENDS Integers, Sequences, FiniteSets, TLC

VARIABLES
    env,        \* os.environ: a function from the keys that are set to their string values
    stack,      \* the temporary_env_vars scopes that are open (sequential use), innermost last
    lastExit,   \* what the last temporary_env_vars exit did (None when the last step was no exit)
    fi,         \* the FlexibleInstrumentation singleton (_instrumentation_manager): its fields
    pipes,      \* every pipeline a configure call started to build, by id: its config and objects
    tcStack,    \* the temporary_config scopes that are open: their saved locals
    cache,      \* SessionManager._cache: cache key -> [components, timestamp]
    now,        \* datetime.now(), in minutes
    app,        \* the FastAPI application: "starting", "running", "failed" or "stopped"
    nBuilds,    \* the component bundles built so far (a bundle is named by its number)
    lastResult, \* cache key -> how the last initialize_app call for it ended
    lastBuilt,  \* cache key -> the last bundle built for it and the time of that call
    last,       \* the last initialize_app call (None before the first)
    lastChat,   \* the last mustang chat request: os.environ when it started, and how it ended
    req,        \* the langgraph-fin-agent requests: where each handler is, and its locals
    baseline,   \* os.environ when the first langgraph-fin-agent request started
    lastOp,     \* the last operation on the FlexibleInstrumentation: its calls and outcome
    disk,       \* the file system the mustang IndexManager works on: storage and data files
    im,         \* the IndexManager: force_rebuild and the load_or_create_index call in flight
    lastLoad    \* the last attempt of load_or_create_index: what it decided and did

vars == <<env, stack, lastExit, fi, pipes, tcStack,
          cache, now, app, nBuilds, lastResult, lastBuilt, last,
          lastChat, req, baseline, lastOp, disk, im, lastLoad>>

(***************************************************************************)
(* Python values.  Optional[X]: None is <<>>, a value x is <<x>>.  A dict  *)
(* is the sequence of its <<key, value>> items in insertion order.         *)
(***************************************************************************)
None == <<>>
Some(x) == <<x>>

Range(s) == {s[i] : i \in DOMAIN s}

dict_keys(d) == {d[i][1] : i \in DOMAIN d}

dict_get(d, key) ==
    IF key \in dict_keys(d)
    THEN LET i == CHOOSE j \in DOMAIN d : d[j][1] = key IN d[i][2]
    ELSE None

(* All dicts with distinct keys from K, values from V, at most n items, in *)
(* every insertion order.                                                  *)
RECURSIVE Dicts(_, _, _)
Dicts(K, V, n) ==
    IF n = 0 THEN {<<>>}
    ELSE LET shorter == Dicts(K, V, n - 1) IN
         shorter \cup
         UNION {{Append(d, <<k, v>>) : k \in K \ dict_keys(d), v \in V} :
                d \in {x \in shorter : Len(x) = n - 1}}

(***************************************************************************)
(* os.environ                                                              *)
(***************************************************************************)
os_environ_get(e, key) == IF key \in DOMAIN e THEN Some(e[key]) ELSE None

os_environ_set(e, key, value) ==
    [k \in DOMAIN e \cup {key} |-> IF k = key THEN value ELSE e[k]]

os_environ_pop(e, key) == [k \in DOMAIN e \ {key} |-> e[k]]

(***************************************************************************)
(* EnvironmentManager.temporary_env_vars (env_manager.py 12-50).           *)
(* A scope is what the generator holds while it is suspended at its yield: *)
(* original_values and variables_to_restore.  "if not overrides" is true   *)
(* of None and of the empty dict.                                          *)
(***************************************************************************)
not_overrides(overrides) == overrides = None \/ overrides[1] = <<>>

\* the loop of lines 32-37 without the test of line 33: a key whose value is
\* None is recorded too, and removed from os.environ
RECURSIVE tev_set_all_keys(_, _, _)
tev_set_all_keys(st, items, i) ==
    IF i > Len(items) THEN st
    ELSE LET key == items[i][1]
             value == items[i][2]
         IN  tev_set_all_keys(
                 [env |-> IF value # None THEN os_environ_set(st.env, key, value[1])
                          ELSE os_environ_pop(st.env, key),
                  original_values |->
                      [k \in DOMAIN st.original_values \cup {key} |->
                          IF k = key THEN os_environ_get(st.env, key)
                          ELSE st.original_values[k]],
                  variables_to_restore |-> Append(st.variables_to_restore, key)],
                 items, i + 1)

\* lines 32-37: the loop over overrides.items(), from item i on
RECURSIVE tev_set(_, _, _)
tev_set(st, items, i) ==
    IF i > Len(items) THEN st
    ELSE LET key == items[i][1]
             value == items[i][2]
         IN  IF value # None
             THEN tev_set([env |-> os_environ_set(st.env, key, value[1]),
                           original_values |->
                               [k \in DOMAIN st.original_values \cup {key} |->
                                   IF k = key THEN os_environ_get(st.env, key)
                                   ELSE st.original_values[k]],
                           variables_to_restore |->
                               Append(st.variables_to_restore, key)],
                          items, i + 1)
             ELSE tev_set(st, items, i + 1)

\* lines 21-39: from the call to the yield
tev_enter(e, overrides) ==
    IF not_overrides(overrides)
    THEN [env |-> e, original_values |-> <<>>, variables_to_restore |-> <<>>]
    ELSE tev_set([env |-> e, original_values |-> <<>>, variables_to_restore |-> <<>>],
                 overrides[1], 1)

\* the finally block without lines 44-46: a key that was absent is not removed
RECURSIVE tev_restore_no_removal(_, _, _, _)
tev_restore_no_removal(e, original_values, variables_to_restore, i) ==
    IF i > Len(variables_to_restore) THEN e
    ELSE LET key == variables_to_restore[i] IN
         tev_restore_no_removal(
             IF original_values[key] = None
             THEN e
             ELSE os_environ_set(e, key, original_values[key][1]),
             original_values, variables_to_restore, i + 1)

\* lines 43-50: the finally block, from entry i of variables_to_restore on
RECURSIVE tev_restore(_, _, _, _)
tev_restore(e, original_values, variables_to_restore, i) ==
    IF i > Len(variables_to_restore) THEN e
    ELSE LET key == variables_to_restore[i] IN
         tev_restore(
             IF original_values[key] = None
             THEN os_environ_pop(e, key)
             ELSE os_environ_set(e, key, original_values[key][1]),
             original_values, variables_to_restore, i + 1)

\* a finally block that removes every recorded key, whatever it held on entry
tev_exit_removes_keys(e, scope) ==
    [k \in DOMAIN e \ {scope.variables_to_restore[i] :
                           i \in DOMAIN scope.variables_to_restore} |-> e[k]]

\* lines 41-50: leaving the scope, by return or by an exception of the body
tev_exit(e, scope) ==
    tev_restore(e, scope.original_values, scope.variables_to_restore, 1)

\* lines 41-50 when the restoration of entry failAt of variables_to_restore raises
\* (os.environ[key] = ... and os.environ.pop call putenv / unsetenv before they
\* touch the mapping, and nothing in the loop catches): the entries before
\* failAt are restored, the loop is left at failAt
tev_exit_failing(e, scope, failAt) ==
    tev_restore(e, scope.original_values,
                SubSeq(scope.variables_to_restore, 1, failAt - 1), 1)

\* lines 26-50 when the assignment os.environ[key] = value of item failAt raises
\* (a value with an embedded null byte, say): the key is already in
\* original_values and variables_to_restore (lines 34-35), os.environ is not
\* changed by the failing assignment, and the finally block runs before the
\* exception leaves the generator; the yield is never reached.
\* First without the try/finally: the keys set so far are left as they are
tev_enter_failing_unprotected(e, overrides, failAt) ==
    tev_set([env |-> e, original_values |-> <<>>, variables_to_restore |-> <<>>],
            SubSeq(overrides[1], 1, failAt - 1), 1).env

tev_enter_failing(e, overrides, failAt) ==
    LET st == tev_set([env |-> e, original_values |-> <<>>, variables_to_restore |-> <<>>],
                      SubSeq(overrides[1], 1, failAt - 1), 1)
        key == overrides[1][failAt][1]
        original_values == [k \in DOMAIN st.original_values \cup {key} |->
                               IF k = key THEN os_environ_get(st.env, key)
                               ELSE st.original_values[k]]
    IN  tev_restore(st.env, original_values, Append(st.variables_to_restore, key), 1)

(***************************************************************************)
(* FlexibleInstrumentation (flexible_instrumentation.py 48-212).           *)
(* A pipeline is what one configure call builds: the exporter, the         *)
(* BatchSpanProcessor, the TracerProvider and the LangChainInstrumentor.   *)
(* pipes[p] records the config it was built from and how far each object   *)
(* got.  The manager's fields refer to pipelines by id.  The operations    *)
(* work on a world w = [env, fi, pipes].                                   *)
(*                                                                         *)
(* The calls into the OpenTelemetry SDK can raise.  sdFault says which     *)
(* call of shutdown() raises: 0 none, -1 uninstrument(), i >= 1 the        *)
(* shutdown() of the i-th processor of _span_processors (a processor whose *)
(* shutdown() raised is taken not to be shut down).  cFault says which     *)
(* construction step of configure() raises.                                *)
(***************************************************************************)
fiVars == <<fi, pipes, tcStack, lastOp>>
scopeVars == <<stack, lastExit>>
cacheVars == <<cache, now, app, nBuilds, lastResult, lastBuilt, last>>
reqVars == <<lastChat, req, baseline>>
indexVars == <<disk, im, lastLoad>>

OTEL_HEADERS == "OTEL_EXPORTER_OTLP_TRACES_HEADERS"

ConstructionFaults == {"none", "OTLPSpanExporter", "BatchSpanProcessor",
                       "TracerProvider", "instrument"}

\* __init__, lines 54-59
FlexibleInstrumentation_init ==
    [tracer_provider |-> None,
     span_processors |-> <<>>,
     langchain_instrumentor |-> None,
     is_configured |-> FALSE,
     env_var_key |-> None]

\* TracerConfig, lines 21-30 (endpoint and additional_attributes only reach the SDK)
TracerConfig(space_id, api_key, model_id, use_env_headers) ==
    [space_id |-> space_id, api_key |-> api_key, model_id |-> model_id,
     use_env_headers |-> use_env_headers]

\* Python truth of an Optional[str]
truthy(opt) == opt # None /\ opt[1] # ""

\* line 83
headers_str(config) == "space_id=" \o config.space_id[1] \o ",api_key=" \o config.api_key[1]

\* the calls a manager operation makes, in order, as <<call, pipeline>> (pipeline
\* 0: none); a call that raises is followed by <<"raise", 0>>
Call(w, name, p) == [w EXCEPT !.calls = Append(w.calls, <<name, p>>)]

Raise(w) == Call(w, "raise", 0)

\* lines 166-167: processor.shutdown() for the processors from index i on;
\* returns the world and whether a call raised
RECURSIVE shutdown_processors(_, _, _, _)
shutdown_processors(w, span_processors, i, sdFault) ==
    IF i > Len(span_processors) THEN [w |-> w, raised |-> FALSE]
    ELSE IF sdFault = i
         THEN [w |-> Raise(Call(w, "processor.shutdown", span_processors[i])),
               raised |-> TRUE]
    ELSE shutdown_processors(
             Call([w EXCEPT !.pipes[span_processors[i]].processor = "shutdown"],
                  "processor.shutdown", span_processors[i]),
             span_processors, i + 1, sdFault)

\* shutdown() that also removes the header key when the manager is not configured
fi_shutdown_always_pops(w, sdFault) ==
    [w EXCEPT !.env = IF OTEL_HEADERS \in DOMAIN w.env
                      THEN os_environ_pop(w.env, OTEL_HEADERS) ELSE w.env,
              !.fi = FlexibleInstrumentation_init]

\* shutdown() without lines 169-179: nothing is removed or cleared
fi_shutdown_keeps_state(w, sdFault) ==
    IF ~w.fi.is_configured THEN w
    ELSE shutdown_processors(w, w.fi.span_processors, 1, sdFault).w

\* shutdown(), lines 157-183
fi_shutdown(w, sdFault) ==
    IF ~w.fi.is_configured THEN w
    ELSE
    \* lines 162-163
    IF w.fi.langchain_instrumentor # None /\ sdFault = -1
    THEN Raise(Call(w, "uninstrument", w.fi.langchain_instrumentor[1]))
    ELSE
    LET w1 == IF w.fi.langchain_instrumentor # None
              THEN Call([w EXCEPT !.pipes[w.fi.langchain_instrumentor[1]].instrumentor =
                                       "uninstrumented"],
                        "uninstrument", w.fi.langchain_instrumentor[1])
              ELSE w
        r == shutdown_processors(w1, w.fi.span_processors, 1, sdFault)
    IN
    \* line 182: the exception is logged, what follows in the try block is skipped
    IF r.raised THEN r.w
    ELSE
    \* lines 170-179
    LET w2 == IF w.fi.env_var_key # None /\ w.fi.env_var_key[1] \in DOMAIN w.env
              THEN Call([r.w EXCEPT !.env = os_environ_pop(w.env, w.fi.env_var_key[1])],
                        "del os.environ", 0)
              ELSE r.w
    IN  [w2 EXCEPT !.fi = FlexibleInstrumentation_init]

\* configure(), lines 80-126, after the shutdown and the validation: the new
\* pipeline gets id p.  Returns the world and the provider returned (None: raised)
fi_build(w, config, cFault) ==
    LET p == Len(w.pipes) + 1
        new == [config |-> config, processor |-> "unbuilt", provider |-> FALSE,
                instrumentor |-> "unbuilt"]
        \* lines 81-97
        w0 == IF config.use_env_headers
              THEN Call([w EXCEPT !.env = os_environ_set(w.env, OTEL_HEADERS,
                                                         headers_str(config)),
                                  !.fi.env_var_key = Some(OTEL_HEADERS),
                                  !.pipes = Append(w.pipes, new)],
                        "os.environ", 0)
              ELSE [w EXCEPT !.pipes = Append(w.pipes, new)]
        w1 == Call(w0, "OTLPSpanExporter", p)
        \* line 105
        w2 == Call([w1 EXCEPT !.pipes[p].processor = "live"], "BatchSpanProcessor", p)
        \* lines 108-112
        w3 == Call([w2 EXCEPT !.pipes[p].provider = TRUE,
                              !.fi.tracer_provider = Some(p),
                              !.fi.span_processors = Append(w2.fi.span_processors, p)],
                   "TracerProvider", p)
        \* line 115
        w4 == [w3 EXCEPT !.fi.langchain_instrumentor = Some(p),
                         !.pipes[p].instrumentor = "created"]
        \* lines 116-118
        w5 == Call([w4 EXCEPT !.pipes[p].instrumentor = "instrumented",
                              !.fi.is_configured = TRUE],
                   "instrument", p)
    IN  CASE cFault = "OTLPSpanExporter" -> [w |-> Raise(w1), provider |-> None]
          [] cFault = "BatchSpanProcessor" ->
                 [w |-> Raise(Call(w1, "BatchSpanProcessor", p)), provider |-> None]
          [] cFault = "TracerProvider" ->
                 [w |-> Raise(Call(w2, "TracerProvider", p)), provider |-> None]
          [] cFault = "instrument" ->
                 [w |-> Raise(Call(w4, "instrument", p)), provider |-> None]
          [] OTHER -> [w |-> w5, provider |-> Some(p)]

\* configure() without lines 72-73: the pipeline in place is not shut down
fi_configure_no_teardown(w, config, sdFault, cFault) ==
    IF ~truthy(config.space_id) \/ ~truthy(config.api_key)
    THEN [w |-> Call(w, "ValueError", 0), provider |-> None]
    ELSE fi_build(w, config, cFault)

\* configure() with the test of lines 75-78 made after the construction
fi_configure_validates_late(w, config, sdFault, cFault) ==
    LET w0 == IF w.fi.is_configured THEN fi_shutdown(w, sdFault) ELSE w
        r == fi_build(w0, [config EXCEPT !.space_id = Some("s"), !.api_key = Some("k")],
                      cFault)
    IN  IF ~truthy(config.space_id) \/ ~truthy(config.api_key)
        THEN [w |-> Call(r.w, "ValueError", 0), provider |-> None]
        ELSE fi_build(w0, config, cFault)

\* configure(), lines 61-126
fi_configure(w, config, sdFault, cFault) ==
    LET w0 == IF w.fi.is_configured THEN fi_shutdown(w, sdFault) ELSE w IN
    IF ~truthy(config.space_id) \/ ~truthy(config.api_key)
    THEN [w |-> Call(w0, "ValueError", 0), provider |-> None]
    ELSE fi_build(w0, config, cFault)

\* a reconfigure() that keeps the pipeline of a manager that is configured
fi_reconfigure_keeps_pipeline(w, config, sdFault, cFault) ==
    IF w.fi.is_configured THEN [w |-> w, provider |-> w.fi.tracer_provider]
    ELSE fi_configure(w, config, sdFault, cFault)

\* reconfigure(), lines 143-155
fi_reconfigure(w, config, sdFault, cFault) == fi_configure(w, config, sdFault, cFault)

\* is_configured(), lines 185-187
fi_is_configured(f) == f.is_configured

World == [env |-> env, fi |-> fi, pipes |-> pipes, calls |-> <<>>]

SetWorld(w) ==
    /\ env' = w.env
    /\ fi' = w.fi
    /\ pipes' = w.pipes

(***************************************************************************)
(* One FlexibleInstrumentation driven by any sequence of its operations.   *)
(***************************************************************************)
MaxPipelines == 3
MaxConfigures == 2
MaxTemporary == 1

ManagerConfigs ==
    {TracerConfig(Some("s1"), Some("k1"), "m1", TRUE),
     TracerConfig(Some("s2"), Some("k2"), "m2", FALSE),
     TracerConfig(Some("s1"), None, "m1", TRUE),
     TracerConfig(Some(""), Some("k2"), "m2", FALSE)}

\* the calls of shutdown() that can raise on manager f: uninstrument() (-1) and
\* the shutdown() of each processor it holds (its index); 0: none raises
ConstructionFaultsOf(config) ==
    IF truthy(config.space_id) /\ truthy(config.api_key) THEN ConstructionFaults
    ELSE {"none"}

ShutdownFaults(f) ==
    IF ~f.is_configured THEN {0}
    ELSE {0} \cup (IF f.langchain_instrumentor # None THEN {-1} ELSE {})
             \cup (1 .. Len(f.span_processors))

InitManager ==
    /\ env \in {<<>>, [k \in {OTEL_HEADERS} |-> "space_id=s0,api_key=k0"]}
    /\ stack = <<>>
    /\ lastExit = None
    /\ fi = FlexibleInstrumentation_init
    /\ pipes = <<>>
    /\ tcStack = <<>>
    /\ cache = <<>>
    /\ now = 0
    /\ app = "starting"
    /\ nBuilds = 0
    /\ lastResult = <<>>
    /\ lastBuilt = <<>>
    /\ last = None
    /\ lastChat = None
    /\ req = <<>>
    /\ baseline = None
    /\ lastOp = None
    /\ disk = <<>>
    /\ im = <<>>
    /\ lastLoad = None

\* what lastOp records of an operation: whether the operation before it was the
\* same one, the manager, os.environ and the pipelines before it, the calls it made, the provider or tracer it returned (None: it
\* returned None or raised) and whether it raised
Before == [env |-> env, fi |-> fi, pipes |-> pipes]

OpRecord(op, config, w, provider, raised, tc) ==
    Some([op |-> op, again |-> lastOp # None /\ lastOp[1].op = op,
          config |-> config, before |-> Before, calls |-> w.calls,
          provider |-> provider, raised |-> raised,
          was_configured |-> tc.was_configured, old_provider |-> tc.old_provider])

NoTemporary == [was_configured |-> FALSE, old_provider |-> None]

\* get_tracer(), lines 128-141: the tracer is named by the provider it is bound to
get_tracer(f) == IF f.tracer_provider = None THEN None ELSE f.tracer_provider

\* one call of configure() on the manager
configure(config, sdFault, cFault) ==
    /\ Len(pipes) < MaxConfigures
    /\ \E r \in {fi_configure(World, config, sdFault, cFault)} :
           /\ SetWorld(r.w)
           /\ lastOp' = OpRecord("configure", Some(config), r.w, r.provider,
                                 r.provider = None, NoTemporary)
    /\ UNCHANGED <<indexVars, stack, lastExit, tcStack, cacheVars, lastChat, req>>

Configure(config, sdFault, cFault) ==
    /\ configure(config, sdFault, cFault)
    /\ UNCHANGED baseline

Reconfigure(config, sdFault, cFault) ==
    /\ Len(pipes) < MaxConfigures
    /\ \E r \in {fi_reconfigure(World, config, sdFault, cFault)} :
           /\ SetWorld(r.w)
           /\ lastOp' = OpRecord("reconfigure", Some(config), r.w, r.provider,
                                 r.provider = None, NoTemporary)
    /\ UNCHANGED <<indexVars, stack, lastExit, tcStack, cacheVars, reqVars>>

Shutdown(sdFault) ==
    /\ \E w \in {fi_shutdown(World, sdFault)} :
           /\ SetWorld(w)
           /\ lastOp' = OpRecord("shutdown", None, w, None, FALSE, NoTemporary)
    /\ UNCHANGED <<indexVars, stack, lastExit, tcStack, cacheVars, reqVars>>

GetTracer ==
    /\ lastOp' = OpRecord("get_tracer", None, World, get_tracer(fi), FALSE, NoTemporary)
    /\ UNCHANGED <<indexVars, env, fi, pipes, stack, lastExit, tcStack, cacheVars, reqVars>>

\* temporary_config(), lines 198-205: up to the yield; when configure raises,
\* the finally block (line 208) runs at once, the exception goes on to the caller
\* and no scope is open
TemporaryConfigEnter(config, sdFault, cFault) ==
    /\ Len(pipes) < MaxConfigures
    /\ Len(tcStack) < MaxTemporary
    /\ \E tc \in {[was_configured |-> fi.is_configured,
                   old_provider |-> fi.tracer_provider]} :
       \E r \in {fi_configure(World, config, sdFault, cFault)} :
           IF r.provider = None
           THEN \E sdFault2 \in ShutdownFaults(r.w.fi) :
                \E w \in {fi_shutdown(r.w, sdFault2)} :
                    /\ SetWorld(w)
                    /\ lastOp' = OpRecord("temporary_config", Some(config), w, None,
                                          TRUE, tc)
                    /\ UNCHANGED tcStack
           ELSE /\ SetWorld(r.w)
                /\ lastOp' = OpRecord("temporary_config.enter", Some(config), r.w,
                                      r.w.fi.tracer_provider, FALSE, tc)
                /\ tcStack' = Append(tcStack, tc)
    /\ UNCHANGED <<indexVars, stack, lastExit, cacheVars, reqVars>>

\* temporary_config(), lines 206-212: the finally block, after the body returned
\* or raised
TemporaryConfigExit(raised, sdFault) ==
    /\ tcStack # <<>>
    /\ \E w \in {fi_shutdown(World, sdFault)} :
           /\ SetWorld(w)
           /\ lastOp' = OpRecord("temporary_config", None, w, None, raised,
                                 tcStack[Len(tcStack)])
    /\ tcStack' = SubSeq(tcStack, 1, Len(tcStack) - 1)
    /\ UNCHANGED <<indexVars, stack, lastExit, cacheVars, reqVars>>

NextManager ==
    \/ \E config \in ManagerConfigs, sdFault \in ShutdownFaults(fi) :
           \E cFault \in ConstructionFaultsOf(config) : Configure(config, sdFault, cFault)
    \/ \E config \in ManagerConfigs, sdFault \in ShutdownFaults(fi) :
           \E cFault \in ConstructionFaultsOf(config) : Reconfigure(config, sdFault, cFault)
    \/ \E sdFault \in ShutdownFaults(fi) : Shutdown(sdFault)
    \/ GetTracer
    \/ \E config \in ManagerConfigs, sdFault \in ShutdownFaults(fi) :
           \E cFault \in ConstructionFaultsOf(config) :
               TemporaryConfigEnter(config, sdFault, cFault)
    \/ \E raised \in BOOLEAN, sdFault \in ShutdownFaults(fi) :
           TemporaryConfigExit(raised, sdFault)

SpecManager == InitManager /\ [][NextManager]_vars

\* the pipelines the manager holds whose span processor has not been shut down
LivePipelines(f, ps) == {p \in Range(f.span_processors) : ps[p].processor = "live"}

(***************************************************************************)
(* C2: in every state reachable by configure, reconfigure, shutdown and    *)
(* temporary_config calls, also calls in which a construction or teardown  *)
(* step raises, the manager holds at most one pipeline that has not been   *)
(* shut down.                                                              *)
(***************************************************************************)
C2_AtMostOneLivePipeline == Cardinality(LivePipelines(fi, pipes)) <= 1

\* the positions of call c in a sequence of calls
Positions(calls, c) == {i \in DOMAIN calls : calls[i] = c}

\* the calls that construct a pipeline or write os.environ
Construction == {"os.environ", "OTLPSpanExporter", "BatchSpanProcessor",
                 "TracerProvider", "instrument"}

\* some call of the operation raised
SdkRaised(calls) == Positions(calls, <<"raise", 0>>) # {}

\* a call that detaches an instrumentor or shuts a processor down raised
TeardownRaised(calls) ==
    \E i \in Positions(calls, <<"raise", 0>>) :
        calls[i - 1][1] \in {"uninstrument", "processor.shutdown"}

IsConfigureOp(x) == x.op \in {"configure", "reconfigure"}

ValidConfig(config) == truthy(config.space_id) /\ truthy(config.api_key)

C13_ShutdownAlwaysCleansUp ==
    lastOp # None =>
    LET x == lastOp[1] IN
    (x.op = "shutdown" /\ x.before.fi.is_configured) =>
        /\ ~x.raised
        /\ fi = FlexibleInstrumentation_init
        /\ x.before.fi.env_var_key # None => x.before.fi.env_var_key[1] \notin DOMAIN env

(***************************************************************************)
(* C14: shutdown() of an unconfigured manager changes neither the manager  *)
(* nor os.environ nor any pipeline; and a second shutdown() that meets the *)
(* same behaviour of the SDK as the first leaves the state the first left. *)
(***************************************************************************)
Proj(w) == [env |-> w.env, fi |-> w.fi, pipes |-> w.pipes]

C15_TracerIffConfigured ==
    /\ (get_tracer(fi) = None) <=> ~fi_is_configured(fi)
    /\ get_tracer(fi) # None =>
           /\ pipes[get_tracer(fi)[1]].provider
           /\ pipes[get_tracer(fi)[1]].instrumentor = "instrumented"
           /\ pipes[get_tracer(fi)[1]].processor = "live"

MaxDepth == 1
MaxOverrides == 2
ScopeKeys == {"ARIZE_MODEL_ID", "OPENAI_API_KEY"}
ScopeValues == {"m0", "m1"}
OverrideValues == {"m1"}

ScopeEnvs == UNION {[D -> ScopeValues] : D \in SUBSET ScopeKeys}
ScopeOverrides ==
    {None} \cup
    {Some(d) : d \in Dicts(ScopeKeys, {None} \cup {Some(v) : v \in OverrideValues},
                           MaxOverrides)}

InitScope ==
    /\ env \in ScopeEnvs
    /\ stack = <<>>
    /\ lastExit = None
    /\ fi = FlexibleInstrumentation_init
    /\ pipes = <<>>
    /\ tcStack = <<>>
    /\ cache = <<>>
    /\ now = 0
    /\ app = "starting"
    /\ nBuilds = 0
    /\ lastResult = <<>>
    /\ lastBuilt = <<>>
    /\ last = None
    /\ lastChat = None
    /\ req = <<>>
    /\ baseline = None
    /\ lastOp = None
    /\ disk = <<>>
    /\ im = <<>>
    /\ lastLoad = None

\* with EnvironmentManager.temporary_env_vars(overrides): up to the yield
EnterScope(overrides) ==
    /\ Len(stack) < MaxDepth
    /\ LET st == tev_enter(env, overrides) IN
       /\ env' = st.env
       /\ stack' = Append(stack, [overrides |-> overrides,
                                  entry |-> env,
                                  original_values |-> st.original_values,
                                  variables_to_restore |-> st.variables_to_restore])
    /\ lastExit' = None
    /\ UNCHANGED <<indexVars, fiVars, cacheVars, reqVars>>

\* the body of the innermost scope sets or deletes a key
BodySet(key, value) ==
    /\ stack # <<>>
    /\ env' = os_environ_set(env, key, value)
    /\ lastExit' = None
    /\ UNCHANGED <<indexVars, stack, fiVars, cacheVars, reqVars>>

BodyDel(key) ==
    /\ stack # <<>>
    /\ key \in DOMAIN env
    /\ env' = os_environ_pop(env, key)
    /\ lastExit' = None
    /\ UNCHANGED <<indexVars, stack, fiVars, cacheVars, reqVars>>

\* the innermost scope is left: the body returned (raised = FALSE) or raised
ExitScope(raised) ==
    /\ stack # <<>>
    /\ LET scope == stack[Len(stack)] IN
       /\ env' = tev_exit(env, scope)
       /\ lastExit' = Some([overrides |-> scope.overrides,
                            entry |-> scope.entry,
                            before |-> env,
                            raised |-> raised,
                            variables_to_restore |-> scope.variables_to_restore,
                            failed |-> 0,
                            propagated |-> IF raised THEN "body" ELSE "none"])
    /\ stack' = SubSeq(stack, 1, Len(stack) - 1)
    /\ UNCHANGED <<indexVars, fiVars, cacheVars, reqVars>>

NextScope ==
    \/ \E overrides \in ScopeOverrides : EnterScope(overrides)
    \/ \E key \in ScopeKeys, value \in ScopeValues : BodySet(key, value)
    \/ \E key \in ScopeKeys : BodyDel(key)
    \/ \E raised \in BOOLEAN : ExitScope(raised)

SpecScope == InitScope /\ [][NextScope]_vars

(***************************************************************************)
(* C1: after temporary_env_vars(overrides) exits, by return or by an       *)
(* exception of the body, every key of overrides with a non-null value     *)
(* holds the value it had on entry to the scope, or is absent if it was    *)
(* absent on entry.                                                        *)
(***************************************************************************)
C1_RestoredOnExit ==
    lastExit # None =>
        LET x == lastExit[1] IN
        ~not_overrides(x.overrides) =>
            \A i \in DOMAIN x.overrides[1] :
                x.overrides[1][i][2] # None =>
                    os_environ_get(env, x.overrides[1][i][1]) =
                    os_environ_get(x.entry, x.overrides[1][i][1])

\* a scope whose body raised, that overrode a key absent on entry and a key
\* set on entry, the body having changed one of them again
C1_Witness ==
    /\ lastExit # None
    /\ lastExit[1].raised
    /\ ~not_overrides(lastExit[1].overrides)
    /\ \E i, j \in DOMAIN lastExit[1].overrides[1] :
          LET items == lastExit[1].overrides[1] IN
          /\ items[i][2] # None /\ items[i][1] \notin DOMAIN lastExit[1].entry
          /\ items[j][2] # None /\ items[j][1] \in DOMAIN lastExit[1].entry
          /\ lastExit[1].entry[items[j][1]] # items[j][2][1]
          /\ os_environ_get(lastExit[1].before, items[i][1]) # items[i][2]

(***************************************************************************)
(* validate_env_overrides (env_manager.py 53-83)                           *)
(***************************************************************************)
Whitespace == {" "}

RECURSIVE lstrip(_)
lstrip(str) ==
    IF Len(str) > 0 /\ SubSeq(str, 1, 1) \in Whitespace
    THEN lstrip(SubSeq(str, 2, Len(str)))
    ELSE str

RECURSIVE rstrip(_)
rstrip(str) ==
    IF Len(str) > 0 /\ SubSeq(str, Len(str), Len(str)) \in Whitespace
    THEN rstrip(SubSeq(str, 1, Len(str) - 1))
    ELSE str

\* str.strip()
strip(str) == rstrip(lstrip(str))

\* lines 69-74
allowed_vars == {"ARIZE_SPACE_ID", "ARIZE_MODEL_ID", "ARIZE_API_KEY", "OPENAI_API_KEY"}

\* lines 77-81 without "and value.strip()": a blank value is kept
RECURSIVE filter_allowed_keeps_blank(_, _)
filter_allowed_keeps_blank(items, i) ==
    IF i > Len(items) THEN <<>>
    ELSE LET key == items[i][1]
             value == items[i][2]
             rest == filter_allowed_keeps_blank(items, i + 1)
         IN  IF key \in allowed_vars /\ value # None
             THEN <<items[i]>> \o rest
             ELSE rest

\* lines 77-81: the dict comprehension keeps the insertion order
RECURSIVE filter_allowed(_, _)
filter_allowed(items, i) ==
    IF i > Len(items) THEN <<>>
    ELSE LET key == items[i][1]
             value == items[i][2]
             rest == filter_allowed(items, i + 1)
         IN  IF key \in allowed_vars /\ value # None /\ strip(value[1]) # ""
             THEN <<items[i]>> \o rest
             ELSE rest

validate_env_overrides(overrides) ==
    IF not_overrides(overrides) THEN None
    ELSE LET filtered == filter_allowed(overrides[1], 1) IN
         IF filtered # <<>> THEN Some(filtered) ELSE None

(***************************************************************************)
(* SessionManager (session_manager.py 9-70)                                *)
(***************************************************************************)
\* cache_ttl_minutes of the session_manager the backends create
cache_ttl_minutes == 30

\* the order of str on the keys that occur
KeyOrder == <<"ARIZE_API_KEY", "ARIZE_MODEL_ID", "ARIZE_SPACE_ID", "OPENAI_API_KEY",
              "OTEL_EXPORTER_OTLP_TRACES_HEADERS", "PATH">>

str_lt(a, b) ==
    (CHOOSE i \in DOMAIN KeyOrder : KeyOrder[i] = a) <
    (CHOOSE i \in DOMAIN KeyOrder : KeyOrder[i] = b)

\* sorted(env_vars.items()): insertion of item into a sorted list
RECURSIVE insert_sorted(_, _)
insert_sorted(srt, item) ==
    IF srt = <<>> THEN <<item>>
    ELSE IF str_lt(item[1], srt[1][1]) THEN <<item>> \o srt
    ELSE <<srt[1]>> \o insert_sorted(Tail(srt), item)

\* sorted() that leaves the items in their insertion order
sorted_keeps_order(items) == items

RECURSIVE sorted(_)
sorted(items) ==
    IF items = <<>> THEN <<>>
    ELSE insert_sorted(sorted(SubSeq(items, 1, Len(items) - 1)), items[Len(items)])

\* json.dumps of a dict of strings
RECURSIVE json_items(_, _)
json_items(items, i) ==
    IF i > Len(items) THEN ""
    ELSE "\"" \o items[i][1] \o "\": \"" \o items[i][2][1] \o "\"" \o
         (IF i < Len(items) THEN ", " ELSE "") \o json_items(items, i + 1)

json_dumps(items) == "{" \o json_items(items, 1) \o "}"

\* the printable ASCII characters from 32 on, for ord(); the place of the grave
\* accent (96) is left empty
Printable ==
    <<" ", "!", "\"", "#", "$", "%", "&", "'", "(", ")", "*", "+", ",", "-", ".", "/",
      "0", "1", "2", "3", "4", "5", "6", "7", "8", "9", ":", ";", "<", "=", ">", "?",
      "@", "A", "B", "C", "D", "E", "F", "G", "H", "I", "J", "K", "L", "M", "N", "O",
      "P", "Q", "R", "S", "T", "U", "V", "W", "X", "Y", "Z", "[", "\\", "]", "^", "_",
      "", "a", "b", "c", "d", "e", "f", "g", "h", "i", "j", "k", "l", "m", "n", "o",
      "p", "q", "r", "s", "t", "u", "v", "w", "x", "y", "z", "{", "|", "}", "~">>

ord(c) == 31 + (CHOOSE i \in DOMAIN Printable : Printable[i] = c)

HexDigits == <<"0", "1", "2", "3", "4", "5", "6", "7", "8", "9",
               "a", "b", "c", "d", "e", "f">>

\* n written with `width` hexadecimal digits
RECURSIVE hex(_, _)
hex(n, width) ==
    IF width = 0 THEN ""
    ELSE hex(n \div 16, width - 1) \o HexDigits[(n % 16) + 1]

\* SHA-256 is not computed.  In its place stands a 32-bit digest of the same
\* characters (two 16-bit sums of the characters lo..hi weighted by position),
\* written as 64 hexadecimal digits like hexdigest() writes its 256 bits.
RECURSIVE digest_sum(_, _, _, _)
digest_sum(str, lo, hi, weight) ==
    IF lo > hi THEN 0
    ELSE IF lo = hi
    THEN (ord(SubSeq(str, lo, lo)) * (IF weight = 1 THEN lo ELSE lo * lo + 1)) % 65536
    ELSE LET mid == (lo + hi) \div 2 IN
         (digest_sum(str, lo, mid, weight) + digest_sum(str, mid + 1, hi, weight)) % 65536

hexdigest(str) ==
    LET word == hex(digest_sum(str, 1, Len(str), 1), 4) \o
                hex(digest_sum(str, 1, Len(str), 2), 4)
        two == word \o word
        four == two \o two
    IN  four \o four

\* the digests of the JSON texts of the override maps of keys of the
\* allow-list, computed once
DigestValues == {"m1", "m2", "o1"}

DigestTexts ==
    {json_dumps(sorted(d)) :
        d \in Dicts(allowed_vars, {Some(v) : v \in DigestValues}, MaxOverrides)}

DigestTable == [str \in DigestTexts |-> SubSeq(hexdigest(str), 1, 16)]

\* hashlib.sha256(s.encode()).hexdigest()[:16]
sha256_hexdigest_16(str) ==
    IF str \in DOMAIN DigestTable THEN DigestTable[str] ELSE SubSeq(hexdigest(str), 1, 16)

\* _generate_cache_key with "if env_vars is None" for "if not env_vars"
generate_cache_key_none_only(env_vars) ==
    IF env_vars = None THEN "default"
    ELSE sha256_hexdigest_16(json_dumps(sorted(sorted(env_vars[1]))))

\* _generate_cache_key, lines 16-26
generate_cache_key(env_vars) ==
    IF not_overrides(env_vars) THEN "default"
    ELSE LET sorted_env == sorted(env_vars[1])      \* line 22
         IN  sha256_hexdigest_16(json_dumps(sorted(sorted_env)))  \* sort_keys=True

dict_del(c, key) == [k \in DOMAIN c \ {key} |-> c[k]]

dict_put(c, key, value) == [k \in DOMAIN c \cup {key} |-> IF k = key THEN value ELSE c[k]]

\* line 36 with <= for <
entry_valid_inclusive(timestamp, t) == t - timestamp <= cache_ttl_minutes

\* line 36: the entry is still valid at time t
entry_valid(timestamp, t) == t - timestamp < cache_ttl_minutes

\* lines 32-44 without the del of line 42
lookup_keeps_expired(c, cache_key, t) ==
    IF cache_key \in DOMAIN c /\ entry_valid(c[cache_key].timestamp, t)
    THEN [cache |-> c, components |-> Some(c[cache_key].components)]
    ELSE [cache |-> c, components |-> None]

\* lines 32-44 of get_cached_components, for the cache key computed at line 30
lookup(c, cache_key, t) ==
    IF cache_key \in DOMAIN c
    THEN IF entry_valid(c[cache_key].timestamp, t)
         THEN [cache |-> c, components |-> Some(c[cache_key].components)]
         ELSE [cache |-> dict_del(c, cache_key), components |-> None]
    ELSE [cache |-> c, components |-> None]

\* get_cached_components, lines 28-44, called at time t: the cache afterwards and
\* the components returned (None: a miss)
get_cached_components(c, env_vars, t) == lookup(c, generate_cache_key(env_vars), t)

\* lines 55-65 with the comparison of line 60 inverted
cleanup_expired_cache_inverted(c, t) ==
    LET expired_keys == {key \in DOMAIN c : t - c[key].timestamp < cache_ttl_minutes}
    IN  [k \in DOMAIN c \ expired_keys |-> c[k]]

\* _cleanup_expired_cache, lines 55-65
cleanup_expired_cache(c, t) ==
    LET expired_keys == {key \in DOMAIN c : t - c[key].timestamp >= cache_ttl_minutes}
    IN  [k \in DOMAIN c \ expired_keys |-> c[k]]

\* cache_components without the call of line 53: nothing is swept
cache_components_no_sweep(c, env_vars, components, t) ==
    dict_put(c, generate_cache_key(env_vars), [components |-> components, timestamp |-> t])

\* cache_components, lines 46-53, called at time t
cache_components(c, env_vars, components, t) ==
    cleanup_expired_cache(
        dict_put(c, generate_cache_key(env_vars),
                 [components |-> components, timestamp |-> t]),
        t)

\* clear_cache, lines 67-70
clear_cache(c) == <<>>

(***************************************************************************)
(* arize-chatbot backend (arize-chatbot/backend/main.py).  The handlers    *)
(* contain no await: each runs to its end before another starts.           *)
(***************************************************************************)
\* the steps of the build, lines 80-98, that can raise
BuildFaults == {"none", "Settings", "setup_instrumentation", "init_openai_client",
                "IndexManager", "QueryClassifier"}

\* initialize_app, lines 72-117, called at time t; the build takes `elapsed`
\* and yields the bundle `bundle` unless the step `fault` raises
initialize_app(c, env_overrides, t, elapsed, fault, bundle) ==
    LET g == get_cached_components(c, env_overrides, t) IN
    IF g.components # None
    THEN [cache |-> g.cache, result |-> "hit", components |-> g.components,
          now |-> t]
    ELSE IF fault # "none"
    THEN [cache |-> g.cache, result |-> "failed", components |-> None,
          now |-> t + elapsed]
    ELSE [cache |-> cache_components(g.cache, env_overrides, bundle, t + elapsed),
          result |-> "built", components |-> Some(bundle), now |-> t + elapsed]

MaxBuilds == 3
MaxClock == 60
MinutesPerTick == 10

ArizeRequests ==
    {None,
     Some(<< <<"ARIZE_MODEL_ID", Some("m1")>> >>),
     Some(<< <<"OPENAI_API_KEY", Some("o1")>>, <<"ARIZE_MODEL_ID", Some("m2")>> >>),
     Some(<< <<"ARIZE_MODEL_ID", Some("m2")>>, <<"OPENAI_API_KEY", Some("o1")>> >>),
     Some(<< <<"PATH", Some("/x")>>, <<"OPENAI_API_KEY", Some("  ")>> >>)}

InitArize ==
    /\ env = [k \in {"ARIZE_MODEL_ID", "OPENAI_API_KEY"} |->
                 IF k = "ARIZE_MODEL_ID" THEN "m0" ELSE "o0"]
    /\ stack = <<>>
    /\ lastExit = None
    /\ fi = FlexibleInstrumentation_init
    /\ pipes = <<>>
    /\ tcStack = <<>>
    /\ cache = <<>>
    /\ now = 0
    /\ app = "starting"
    /\ nBuilds = 0
    /\ lastResult = <<>>
    /\ lastBuilt = <<>>
    /\ last = None
    /\ lastChat = None
    /\ req = <<>>
    /\ baseline = None
    /\ lastOp = None
    /\ disk = <<>>
    /\ im = <<>>
    /\ lastLoad = None

\* what a call of initialize_app leaves in the history variables
Record(handler, key, r, envWrites) ==
    /\ cache' = r.cache
    /\ now' = r.now
    /\ nBuilds' = IF r.result = "built" THEN nBuilds + 1 ELSE nBuilds
    /\ lastResult' = dict_put(lastResult, key, r.result)
    /\ lastBuilt' = IF r.result = "built"
                    THEN dict_put(lastBuilt, key, [components |-> r.components[1], at |-> now])
                    ELSE lastBuilt
    /\ last' = Some([handler |-> handler,
                     key |-> key,
                     at |-> now,
                     result |-> r.result,
                     components |-> r.components,
                     builds |-> IF r.result = "built" THEN 1 ELSE 0,
                     entryBefore |-> IF key \in DOMAIN cache THEN Some(cache[key]) ELSE None,
                     before |-> IF key \in DOMAIN lastResult THEN lastResult[key] ELSE "none",
                     prevBuilt |-> IF key \in DOMAIN lastBuilt THEN Some(lastBuilt[key]) ELSE None,
                     envWrites |-> envWrites])

\* lifespan, lines 28-35: the application starts when initialize_app() succeeds
ArizeStartup(elapsed, fault) ==
    /\ app = "starting"
    /\ \E r \in {initialize_app(cache, None, now, elapsed, fault, nBuilds + 1)} :
       /\ Record("lifespan", generate_cache_key(None), r, {})
       /\ app' = IF r.result = "failed" THEN "failed" ELSE "running"
    /\ UNCHANGED <<indexVars, env, scopeVars, fiVars, reqVars>>

\* chat, lines 119-159: one request, from validate_env_overrides to the exit of
\* the with block; outcome is what process_interaction does
chat(request_env_overrides, elapsed, fault, outcome) ==
    /\ app = "running"
    /\ nBuilds < MaxBuilds
    /\ now + elapsed <= MaxClock
    /\ \E env_overrides \in {validate_env_overrides(request_env_overrides)} :
       \E st \in {tev_enter(env, env_overrides)} :
       \E r \in {initialize_app(cache, env_overrides, now, elapsed, fault, nBuilds + 1)} :
           /\ Record("chat", generate_cache_key(env_overrides), r,
                     Range(st.variables_to_restore))
           /\ env' = tev_exit(st.env, st)
    /\ UNCHANGED <<indexVars, app, stack, fiVars, reqVars>>

ArizeChat(request_env_overrides, elapsed, fault, outcome) ==
    /\ chat(request_env_overrides, elapsed, fault, outcome)
    /\ UNCHANGED lastExit

\* lifespan, line 37
ArizeShutdown ==
    /\ app = "running"
    /\ cache' = clear_cache(cache)
    /\ app' = "stopped"
    /\ UNCHANGED <<indexVars, env, scopeVars, fiVars, reqVars, now, nBuilds, lastResult, lastBuilt, last>>

Tick ==
    /\ app = "running"
    /\ now + MinutesPerTick <= MaxClock
    /\ now' = now + MinutesPerTick
    /\ UNCHANGED <<indexVars, env, scopeVars, fiVars, reqVars, cache, app, nBuilds, lastResult, lastBuilt, last>>

NextArize ==
    \/ \E elapsed \in {0, MinutesPerTick}, fault \in BuildFaults :
          ArizeStartup(elapsed, fault)
    \/ \E request_env_overrides \in ArizeRequests, elapsed \in {0, MinutesPerTick},
          fault \in BuildFaults, outcome \in {"response", "raise"} :
          ArizeChat(request_env_overrides, elapsed, fault, outcome)
    \/ ArizeShutdown
    \/ Tick

SpecArize == InitArize /\ [][NextArize]_vars

(***************************************************************************)
(* C3: two initialize_app calls with the same validated override set made  *)
(* less than the TTL apart build the bundle once: the second call builds   *)
(* nothing and returns the bundle the first one stored.                    *)
(***************************************************************************)
C3_SecondCallWithinTTLHits ==
    last # None =>
        LET x == last[1] IN
        (x.prevBuilt # None /\ x.at - x.prevBuilt[1].at < cache_ttl_minutes) =>
            /\ x.result = "hit"
            /\ x.builds = 0
            /\ x.components = Some(x.prevBuilt[1].components)

\* a chat request with overrides served from the cache 20 minutes or more
\* after the call that built the bundle
C3_Witness ==
    /\ last # None
    /\ last[1].handler = "chat"
    /\ last[1].key # "default"
    /\ last[1].result = "hit"
    /\ last[1].prevBuilt # None
    /\ last[1].at - last[1].prevBuilt[1].at >= 2 * MinutesPerTick

(***************************************************************************)
(* C4: a request whose override set hits the cache is served without any   *)
(* mutation of the process environment: no key is written or removed while *)
(* the request is handled.                                                 *)
(***************************************************************************)
C4_HitMutatesNoEnvironment ==
    last # None =>
        ((last[1].handler = "chat" /\ last[1].result = "hit") => last[1].envWrites = {})

(***************************************************************************)
(* C5: a lookup returns the stored bundle iff now - timestamp < TTL; at    *)
(* now - timestamp >= TTL, the boundary included, the entry is evicted,    *)
(* the lookup is a miss and the build runs again.                          *)
(***************************************************************************)
C5_ExpiryHonoured ==
    last # None =>
        LET x == last[1] IN
        /\ x.result = "hit" <=>
              (x.entryBefore # None /\ x.at - x.entryBefore[1].timestamp < cache_ttl_minutes)
        /\ x.result = "hit" => x.components = Some(x.entryBefore[1].components)
        /\ (x.entryBefore # None /\ x.at - x.entryBefore[1].timestamp >= cache_ttl_minutes) =>
              /\ x.result \in {"built", "failed"}
              /\ x.key \in DOMAIN cache =>
                    /\ cache[x.key].components # x.entryBefore[1].components
                    /\ x.result = "built" /\ x.components = Some(cache[x.key].components)

\* a lookup of an entry whose age is exactly the TTL, followed by a rebuild
C5_Witness ==
    /\ last # None
    /\ last[1].entryBefore # None
    /\ last[1].at - last[1].entryBefore[1].timestamp = cache_ttl_minutes
    /\ last[1].result = "built"

(***************************************************************************)
(* C6: when the build fails at any step, initialize_app fails and the      *)
(* cache holds no entry for that fingerprint afterwards, neither a partial *)
(* bundle nor a previously expired one; the next call with the same        *)
(* overrides runs the build again.                                         *)
(***************************************************************************)
C6_FailedBuildNotCached ==
    last # None =>
        LET x == last[1] IN
        /\ x.result = "failed" => (x.components = None /\ x.key \notin DOMAIN cache)
        /\ x.before = "failed" => x.result \in {"built", "failed"}

\* a build that failed for a fingerprint whose expired entry was still stored
C6_Witness ==
    /\ last # None
    /\ last[1].result = "failed"
    /\ last[1].entryBefore # None
    /\ last[1].key # "default"

(***************************************************************************)
(* Telemetry setup of the backends that use FlexibleInstrumentation        *)
(* (mustang_manual_bot/backend/main.py, langgraph-fin-agent/backend/main.py)*)
(***************************************************************************)
\* os.getenv(key, default)
os_getenv(e, key, default) == IF key \in DOMAIN e THEN e[key] ELSE default

\* get_non_empty_value, mustang main.py 87-92 (langgraph main.py 42-47)
get_non_empty_value(e, env_overrides, override_key, env_key, default) ==
    LET override_val ==
            IF ~not_overrides(env_overrides) /\ override_key \in dict_keys(env_overrides[1])
            THEN strip(dict_get(env_overrides[1], override_key)[1])
            ELSE ""
    IN  IF override_val # "" THEN override_val
        ELSE strip(os_getenv(e, env_key, default))

\* has_valid_arize_config, mustang main.py 77-102 (langgraph main.py 32-57);
\* default_model is the default of ARIZE_MODEL_ID, which differs between the two
has_valid_arize_config(e, env_overrides, default_model) ==
    LET space_id == get_non_empty_value(e, env_overrides, "ARIZE_SPACE_ID", "ARIZE_SPACE_ID", "")
        api_key == get_non_empty_value(e, env_overrides, "ARIZE_API_KEY", "ARIZE_API_KEY", "")
        model_id == get_non_empty_value(e, env_overrides, "ARIZE_MODEL_ID", "ARIZE_MODEL_ID",
                                        default_model)
    IN  [has_valid |-> space_id # "" /\ api_key # "",
         space_id |-> space_id, api_key |-> api_key, model_id |-> model_id]

\* TracerConfig.from_env, flexible_instrumentation.py 32-45
TracerConfig_from_env(e, use_env_headers) ==
    TracerConfig(os_environ_get(e, "ARIZE_SPACE_ID"),
                 os_environ_get(e, "ARIZE_API_KEY"),
                 os_getenv(e, "ARIZE_MODEL_ID", "default_model"),
                 use_env_headers)

\* setup_flexible_instrumentation(), flexible_instrumentation.py 224-240, config None
setup_flexible_instrumentation(w, sdFault, cFault) ==
    fi_configure(w, TracerConfig_from_env(w.env, TRUE), sdFault, cFault)

\* mustang main.py 117-146 with a fall-back: when the configuration is not
\* valid the components are built without telemetry
setup_telemetry_falls_back(w, env_overrides, default_model, sdFault, sdFault2, cFault) ==
    LET w1 == IF fi_is_configured(w.fi) THEN fi_shutdown(w, sdFault) ELSE w
        a == has_valid_arize_config(w1.env, env_overrides, default_model)
    IN  IF a.has_valid
        THEN fi_configure(w1, TracerConfig(Some(a.space_id), Some(a.api_key),
                                           a.model_id, TRUE),
                          sdFault2, cFault)
        ELSE [w |-> w1, provider |-> Some(0)]

\* mustang main.py 117-146 (langgraph main.py 69-100): the manager is shut down
\* and configured again.  sdFault is the fault of the shutdown() of line 122,
\* sdFault2 of the one configure() makes when the manager is still configured
setup_telemetry(w, env_overrides, default_model, sdFault, sdFault2, cFault) ==
    LET w1 == IF fi_is_configured(w.fi) THEN fi_shutdown(w, sdFault) ELSE w
        a == has_valid_arize_config(w1.env, env_overrides, default_model)
    IN  IF a.has_valid
        THEN fi_configure(w1, TracerConfig(Some(a.space_id), Some(a.api_key),
                                           a.model_id, TRUE),
                          sdFault2, cFault)
        ELSE setup_flexible_instrumentation(w1, sdFault2, cFault)

HandlerShutdownFaults == {-1, 0, 1}

(***************************************************************************)
(* mustang_manual_bot backend.  The handlers contain no await.             *)
(***************************************************************************)
MustangFaults == {"none", "Settings", "init_openai_client", "IndexManager",
                  "QueryClassifier"}

\* initialize_app, mustang main.py 104-180: the world afterwards and the provider
\* of the components returned (None: HTTPException 500)
mustang_initialize_app(w, env_overrides, sdFault, sdFault2, cFault, fault) ==
    IF fault = "Settings" THEN [w |-> w, provider |-> None]
    ELSE LET r == setup_telemetry(w, env_overrides, "default_model",
                                  sdFault, sdFault2, cFault)
         IN  IF r.provider = None \/ fault # "none"
             THEN [w |-> r.w, provider |-> None]
             ELSE r

MustangRequests ==
    {None,
     Some(<< <<"ARIZE_MODEL_ID", Some("m1")>> >>),
     Some(<< <<"ARIZE_MODEL_ID", Some("m2")>> >>),
     Some(<< <<"ARIZE_SPACE_ID", Some("s1")>>, <<"ARIZE_API_KEY", Some("k1")>> >>),
     Some(<< <<"ARIZE_SPACE_ID", Some("s2")>>, <<"PATH", Some("/x")>> >>)}

InitMustang ==
    /\ env \in {<<>>,
                [k \in {"ARIZE_SPACE_ID"} |-> "s0"],
                [k \in {"ARIZE_API_KEY", "ARIZE_MODEL_ID"} |->
                    IF k = "ARIZE_API_KEY" THEN "k0" ELSE "m0"],
                [k \in {"ARIZE_SPACE_ID", "ARIZE_API_KEY"} |->
                    IF k = "ARIZE_SPACE_ID" THEN "s0" ELSE "k0"]}
    /\ stack = <<>>
    /\ lastExit = None
    /\ fi = FlexibleInstrumentation_init
    /\ pipes = <<>>
    /\ tcStack = <<>>
    /\ cache = <<>>
    /\ now = 0
    /\ app = "starting"
    /\ nBuilds = 0
    /\ lastResult = <<>>
    /\ lastBuilt = <<>>
    /\ last = None
    /\ lastChat = None
    /\ req = <<>>
    /\ baseline = None
    /\ lastOp = None
    /\ disk = <<>>
    /\ im = <<>>
    /\ lastLoad = None

\* The faults of one chat request that lead to different results: the three calls
\* after the telemetry setup fail alike (one stands for them), a failing Settings()
\* comes before everything else, the first shutdown() can only fail on what the
\* manager holds, the second is reached only when the first failed, and
\* process_interaction runs only when the components were returned
MustangChatFaults == {"none", "Settings", "IndexManager"}

FirstShutdownFaults(fault) ==
    IF fault = "Settings" THEN {0} ELSE HandlerShutdownFaults \cap ShutdownFaults(fi)

SecondShutdownFaults(sdFault) ==
    IF sdFault = 0 THEN {0} ELSE HandlerShutdownFaults

\* lifespan, mustang main.py 33-40
MustangStartup(cFault, fault) ==
    /\ app = "starting"
    /\ \E r \in {mustang_initialize_app(World, None, 0, 0, cFault, fault)} :
       /\ SetWorld(r.w)
       /\ app' = IF r.provider = None THEN "failed" ELSE "running"
       /\ lastOp' = Some([op |-> "initialize_app", env_overrides |-> None,
                          before |-> Before, fault |-> fault, calls |-> r.w.calls,
                          provider |-> r.provider])
    /\ UNCHANGED <<indexVars, scopeVars, tcStack, cache, now, nBuilds, lastResult, lastBuilt, last,
                   reqVars>>

\* chat, mustang main.py 182-222: one request, from validate_env_overrides to
\* the exit of the with block; outcome is what process_interaction does
MustangChat(request_env_overrides, sdFault, sdFault2, cFault, fault, outcome) ==
    /\ app = "running"
    /\ Len(pipes) < MaxPipelines
    /\ \E env_overrides \in {validate_env_overrides(request_env_overrides)} :
       \E st \in {tev_enter(env, env_overrides)} :
       \E r \in {mustang_initialize_app([env |-> st.env, fi |-> fi, pipes |-> pipes, calls |-> <<>>],
                                        env_overrides, sdFault, sdFault2, cFault, fault)} :
           /\ env' = tev_exit(r.w.env, st)
           /\ fi' = r.w.fi
           /\ pipes' = r.w.pipes
           /\ lastChat' = Some([entry |-> env,
                                env_overrides |-> env_overrides,
                                status |-> IF r.provider = None \/ outcome = "raise"
                                           THEN 500 ELSE 200])
    /\ UNCHANGED <<indexVars, scopeVars, tcStack, lastOp, cacheVars, req, baseline>>

NextMustang ==
    \/ \E cFault \in ConstructionFaults, fault \in MustangFaults :
          MustangStartup(cFault, fault)
    \/ \E request_env_overrides \in MustangRequests, fault \in MustangChatFaults :
       \E sdFault \in FirstShutdownFaults(fault) :
       \E sdFault2 \in SecondShutdownFaults(sdFault) :
       \E cFault \in IF fault = "Settings" THEN {"none"} ELSE ConstructionFaults :
       \E outcome \in IF fault = "none" /\ cFault = "none" THEN {"response", "raise"}
                      ELSE {"response"} :
          MustangChat(request_env_overrides, sdFault, sdFault2, cFault, fault, outcome)

SpecMustang == InitMustang /\ [][NextMustang]_vars

(***************************************************************************)
(* C7: after a chat request that carried overrides has finished, normally  *)
(* or with an error, every key of the process environment, the keys        *)
(* written by the telemetry configuration included, has the value (or      *)
(* absence) it had before the request started.                             *)
(***************************************************************************)
C7_EnvironmentRolledBack ==
    (lastChat # None /\ lastChat[1].env_overrides # None) => env = lastChat[1].entry

(***************************************************************************)
(* langgraph-fin-agent backend.  chat and finance_query are coroutines on  *)
(* one event loop: a handler runs without interruption from one await to   *)
(* the next, and the handlers of other requests run in between.  The only  *)
(* awaits are those of "async for chunk in langgraph_app.astream(...)".    *)
(***************************************************************************)
LgFaults == {"none", "build_app"}

\* initialize_langgraph_app, langgraph main.py 59-122
initialize_langgraph_app(w, env_overrides, sdFault, sdFault2, cFault, fault) ==
    LET r == setup_telemetry(w, env_overrides, "langgraph_finance_agent",
                             sdFault, sdFault2, cFault)
    IN  IF r.provider = None \/ fault # "none"
        THEN [w |-> r.w, provider |-> None]
        ELSE r

NumRequests == 2
MaxChunks == 1

Requests == 1 .. NumRequests

LgRequests ==
    {None,
     Some(<< <<"ARIZE_MODEL_ID", Some("m1")>> >>),
     Some(<< <<"ARIZE_MODEL_ID", Some("m2")>> >>),
     Some(<< <<"ARIZE_SPACE_ID", Some("s1")>>, <<"ARIZE_API_KEY", Some("k1")>> >>)}

IdleRequest ==
    [pc |-> "idle", endpoint |-> "", env_overrides |-> None,
     original_values |-> <<>>, variables_to_restore |-> <<>>,
     provider |-> None, chunks |-> 0, status |-> 0]

InitLanggraph ==
    /\ env = [k \in {"ARIZE_SPACE_ID", "ARIZE_API_KEY"} |->
                 IF k = "ARIZE_SPACE_ID" THEN "s0" ELSE "k0"]
    /\ stack = <<>>
    /\ lastExit = None
    /\ fi = FlexibleInstrumentation_init
    /\ pipes = <<>>
    /\ tcStack = <<>>
    /\ cache = <<>>
    /\ now = 0
    /\ app = "starting"
    /\ nBuilds = 0
    /\ lastResult = <<>>
    /\ lastBuilt = <<>>
    /\ last = None
    /\ lastChat = None
    /\ req = [r \in Requests |-> IdleRequest]
    /\ baseline = None
    /\ lastOp = None
    /\ disk = <<>>
    /\ im = <<>>
    /\ lastLoad = None

\* lifespan, langgraph main.py 124-136
LgStartup(cFault, fault) ==
    /\ app = "starting"
    /\ \E r \in {initialize_langgraph_app(World, None, 0, 0, cFault, fault)} :
       /\ SetWorld(r.w)
       /\ app' = IF r.provider = None THEN "failed" ELSE "running"
    /\ UNCHANGED <<indexVars, scopeVars, tcStack, lastOp, cache, now, nBuilds, lastResult, lastBuilt, last,
                   reqVars>>

\* chat (lines 177-198) and finance_query (lines 212-233), from the start of the
\* handler to the first await of astream; when initialize_langgraph_app raises,
\* the with block is left at once
LgBegin(r, endpoint, request_env_overrides, sdFault, sdFault2, cFault, fault) ==
    /\ app = "running"
    /\ req[r].pc = "idle"
    /\ Len(pipes) < MaxPipelines
    /\ \E env_overrides \in {validate_env_overrides(request_env_overrides)} :
       \E st \in {tev_enter(env, env_overrides)} :
       \E i \in {initialize_langgraph_app([env |-> st.env, fi |-> fi, pipes |-> pipes, calls |-> <<>>],
                                          env_overrides, sdFault, sdFault2, cFault, fault)} :
           /\ fi' = i.w.fi
           /\ pipes' = i.w.pipes
           /\ IF i.provider = None
              THEN /\ env' = tev_exit(i.w.env, st)
                   /\ req' = [req EXCEPT ![r] =
                                 [@ EXCEPT !.pc = "done", !.endpoint = endpoint,
                                           !.env_overrides = env_overrides,
                                           !.variables_to_restore = st.variables_to_restore,
                                           !.status = 500]]
              ELSE /\ env' = i.w.env
                   /\ req' = [req EXCEPT ![r] =
                                 [@ EXCEPT !.pc = "streaming", !.endpoint = endpoint,
                                           !.env_overrides = env_overrides,
                                           !.original_values = st.original_values,
                                           !.variables_to_restore = st.variables_to_restore,
                                           !.provider = i.provider]]
    /\ baseline' = IF baseline = None THEN Some(env) ELSE baseline
    /\ UNCHANGED <<indexVars, scopeVars, tcStack, lastOp, cacheVars, lastChat>>

\* a chunk arrives and the handler awaits the next one (lines 198-201, 233-234)
LgChunk(r) ==
    /\ req[r].pc = "streaming"
    /\ req[r].chunks < MaxChunks
    /\ req' = [req EXCEPT ![r].chunks = @ + 1]
    /\ UNCHANGED <<indexVars, env, scopeVars, fiVars, cacheVars, lastChat, baseline>>

\* the stream ends or raises: the handler returns or raises HTTPException, and
\* the with block is left (lines 203-210, 236-243)
LgEnd(r, outcome) ==
    /\ req[r].pc = "streaming"
    /\ env' = tev_exit(env, req[r])
    /\ req' = [req EXCEPT ![r].pc = "done",
                          ![r].status = IF outcome = "raise" THEN 500 ELSE 200]
    /\ UNCHANGED <<indexVars, scopeVars, fiVars, cacheVars, lastChat, baseline>>

NextLanggraph ==
    \/ \E cFault \in ConstructionFaults, fault \in LgFaults : LgStartup(cFault, fault)
    \/ \E r \in Requests, endpoint \in {"chat", "finance_query"},
          request_env_overrides \in LgRequests,
          sdFault \in HandlerShutdownFaults, sdFault2 \in HandlerShutdownFaults,
          cFault \in ConstructionFaults, fault \in LgFaults :
          LgBegin(r, endpoint, request_env_overrides, sdFault, sdFault2, cFault, fault)
    \/ \E r \in Requests : LgChunk(r)
    \/ \E r \in Requests, outcome \in {"response", "raise"} : LgEnd(r, outcome)

SpecLanggraph == InitLanggraph /\ [][NextLanggraph]_vars

\* the requests that have started carry pairwise different override sets
DifferentOverrides ==
    \A r1, r2 \in Requests :
        (r1 # r2 /\ req[r1].pc # "idle" /\ req[r2].pc # "idle") =>
            req[r1].env_overrides # req[r2].env_overrides

(***************************************************************************)
(* C8: for concurrently handled requests with different override sets,     *)
(* while a request is between applying its overrides and restoring them,   *)
(* across the awaits of its query processing, every key it overrode holds  *)
(* the value that request set.                                             *)
(***************************************************************************)
C8_OverridesHeldDuringRequest ==
    DifferentOverrides =>
        \A r \in Requests :
            (req[r].pc = "streaming" /\ req[r].env_overrides # None) =>
                \A i \in DOMAIN req[r].env_overrides[1] :
                    os_environ_get(env, req[r].env_overrides[1][i][1]) =
                    req[r].env_overrides[1][i][2]

(***************************************************************************)
(* C9: after any interleaving of concurrently handled requests with        *)
(* different override sets has run to completion, each overridden key      *)
(* holds the value it had before the first of these requests started.      *)
(***************************************************************************)
C9_NoOverrideLeftBehind ==
    (DifferentOverrides /\ baseline # None /\ \A r \in Requests : req[r].pc # "streaming") =>
        \A r \in Requests :
            \A i \in DOMAIN req[r].variables_to_restore :
                os_environ_get(env, req[r].variables_to_restore[i]) =
                os_environ_get(baseline[1], req[r].variables_to_restore[i])

(***************************************************************************)
(* C10: from the moment initialize_langgraph_app has configured telemetry  *)
(* for a request until that request's handler finishes, the manager's      *)
(* active pipeline is the one configured for this request: it is not shut  *)
(* down or replaced by a concurrently handled request with different       *)
(* overrides.                                                              *)
(***************************************************************************)
C10_PipelineKeptDuringRequest ==
    DifferentOverrides =>
        \A r \in Requests :
            req[r].pc = "streaming" =>
                /\ fi.is_configured
                /\ fi.tracer_provider = req[r].provider
                /\ pipes[req[r].provider[1]].processor = "live"
                /\ pipes[req[r].provider[1]].instrumentor = "instrumented"

(***************************************************************************)
(* mustang_manual_bot IndexManager (src/llamaindex_app/index_manager.py).  *)
(* disk is the file system it works on: whether the storage directory      *)
(* exists, the files in it (size, modification time, and the index build   *)
(* that wrote them), the PDF files in the data directory (modification     *)
(* time), the clock that stamps writes, and the number of indexes built so *)
(* far.  An index is named by the builds its three files come from.        *)
(***************************************************************************)
\* lines 102 and 128
required_files == <<"default__vector_store.json", "index_store.json", "docstore.json">>

\* lines 72-83: the list of ten manuals, cut to its first two
filenames == <<"2016-Mustang-Owners-Manual-version-2_om_EN-US_11_2015.pdf",
               "2017-Ford-Mustang-Owners-Manual-version-2_om_EN-US_EN-CA_12_2016.pdf">>

\* the order in which StorageContext.persist (line 212) writes the files
persist_order == <<"docstore.json", "index_store.json", "default__vector_store.json">>

\* retry(stop=stop_after_attempt(3)), line 160
stop_after_attempt == 3

\* _get_pdf_files, lines 70-93
get_pdf_files(d) == SelectSeq(filenames, LAMBDA name : name \in DOMAIN d.data)

\* _index_exists_and_valid, lines 95-113, from required file i on
RECURSIVE required_files_valid(_, _)
required_files_valid(d, i) ==
    IF i > Len(required_files) THEN TRUE
    ELSE IF required_files[i] \notin DOMAIN d.files THEN FALSE
    ELSE IF d.files[required_files[i]].size = 0 THEN FALSE
    ELSE required_files_valid(d, i + 1)

index_exists_and_valid(d) ==
    IF ~d.storage THEN FALSE ELSE required_files_valid(d, 1)

\* lines 129-136: the oldest modification time of the index files, from file i on
RECURSIVE oldest_index_time(_, _, _)
oldest_index_time(d, i, oldest) ==
    IF i > Len(required_files) THEN oldest
    ELSE LET file_name == required_files[i] IN
         IF file_name \in DOMAIN d.files
            /\ (oldest = None \/ d.files[file_name].mtime < oldest[1])
         THEN oldest_index_time(d, i + 1, Some(d.files[file_name].mtime))
         ELSE oldest_index_time(d, i + 1, oldest)

\* lines 144-150 with the comparison of line 148 made >=
RECURSIVE any_pdf_newer_or_equal(_, _, _)
any_pdf_newer_or_equal(d, pdf_files, t) ==
    IF pdf_files = <<>> THEN FALSE
    ELSE IF Head(pdf_files) \in DOMAIN d.data /\ d.data[Head(pdf_files)] >= t THEN TRUE
    ELSE any_pdf_newer_or_equal(d, Tail(pdf_files), t)

\* lines 144-150: some PDF file is newer than the index
RECURSIVE any_pdf_newer(_, _, _)
any_pdf_newer(d, pdf_files, t) ==
    IF pdf_files = <<>> THEN FALSE
    ELSE IF Head(pdf_files) \in DOMAIN d.data /\ d.data[Head(pdf_files)] > t THEN TRUE
    ELSE any_pdf_newer(d, Tail(pdf_files), t)

\* _should_rebuild_index, lines 115-157
should_rebuild_index(force_rebuild, d) ==
    IF force_rebuild THEN TRUE
    ELSE IF ~index_exists_and_valid(d) THEN TRUE
    ELSE LET oldest == oldest_index_time(d, 1, None) IN
         IF oldest = None THEN TRUE
         ELSE any_pdf_newer(d, get_pdf_files(d), oldest[1])

\* the index that load_index_from_storage (line 172) reconstructs from the files
index_of(d) == [f \in Range(required_files) |-> d.files[f].build]

\* index.storage_context.persist, line 212: the first n files of persist_order
\* written by build b
RECURSIVE persist(_, _, _)
persist(d, b, n) ==
    IF n = 0 THEN d
    ELSE [persist(d, b, n - 1) EXCEPT
              !.files = [f \in DOMAIN @ \cup {persist_order[n]} |->
                            IF f = persist_order[n]
                            THEN [size |-> 1, mtime |-> d.clock, build |-> b]
                            ELSE @[f]]]

\* the steps of _create_new_index that can raise; "persist" raises after
\* `written` files were written
CreateFaults == {"none", "load_data", "from_documents", "persist"}

\* _create_new_index, lines 182-219: the disk afterwards and the index returned
\* (None: it raised)
create_new_index(d, fault, written) ==
    LET d1 == [d EXCEPT !.storage = TRUE] IN
    IF get_pdf_files(d1) = <<>> THEN [disk |-> d1, index |-> None, error |-> "ValueError"]
    ELSE IF fault = "load_data" THEN [disk |-> d1, index |-> None, error |-> fault]
    ELSE IF fault = "from_documents" THEN [disk |-> d1, index |-> None, error |-> fault]
    ELSE LET b == d1.built + 1
             d2 == [d1 EXCEPT !.built = b]
         IN  IF fault = "persist"
             THEN [disk |-> persist(d2, b, written), index |-> None, error |-> fault]
             ELSE [disk |-> persist(d2, b, Len(persist_order)),
                   index |-> Some([f \in Range(required_files) |-> b]),
                   error |-> ""]

\* load_or_create_index without lines 166-177: the index is always created anew
load_or_create_index_always_rebuilds(d, force_rebuild, load_fails, fault, written) ==
    LET c == create_new_index(d, fault, written) IN
    [disk |-> c.disk, index |-> c.index, raised |-> c.index = None,
     decision |-> IF should_rebuild_index(force_rebuild, d) THEN "rebuild" ELSE "load",
     load_failed |-> FALSE, rebuilt |-> TRUE, error |-> c.error]

\* load_or_create_index without the except clause of lines 175-177: the
\* exception of the load leaves the attempt
load_or_create_index_propagates(d, force_rebuild, load_fails, fault, written) ==
    LET rebuild == should_rebuild_index(force_rebuild, d) IN
    IF ~rebuild
    THEN [disk |-> d, index |-> IF load_fails THEN None ELSE Some(index_of(d)),
          raised |-> load_fails, decision |-> "load", load_failed |-> load_fails,
          rebuilt |-> FALSE, error |-> IF load_fails THEN "load" ELSE ""]
    ELSE LET c == create_new_index(d, fault, written) IN
         [disk |-> c.disk, index |-> c.index, raised |-> c.index = None,
          decision |-> "rebuild", load_failed |-> FALSE, rebuilt |-> TRUE,
          error |-> c.error]

\* one attempt of load_or_create_index, lines 162-180.  load_fails: the
\* reconstruction of lines 169-172 raises
load_or_create_index(d, force_rebuild, load_fails, fault, written) ==
    LET rebuild == should_rebuild_index(force_rebuild, d) IN
    IF ~rebuild /\ ~load_fails
    THEN [disk |-> d, index |-> Some(index_of(d)), raised |-> FALSE,
          decision |-> "load", load_failed |-> FALSE, rebuilt |-> FALSE, error |-> ""]
    ELSE LET c == create_new_index(d, fault, written) IN
         [disk |-> c.disk, index |-> c.index, raised |-> c.index = None,
          decision |-> IF rebuild THEN "rebuild" ELSE "load",
          load_failed |-> ~rebuild, rebuilt |-> TRUE, error |-> c.error]

(***************************************************************************)
(* IndexManager objects are constructed one after the other; __init__      *)
(* (lines 30-38) calls load_or_create_index, which tenacity runs again     *)
(* after an attempt that raised, up to stop_after_attempt attempts.        *)
(* Between the attempts and between the calls the files change: documents  *)
(* are written or removed, index files are truncated or removed, time      *)
(* passes.                                                                 *)
(***************************************************************************)
MaxTime == 1
MaxIndexBuilds == 1
MaxChanges == 1

IndexFiles(t) ==
    {<<>>} \cup {[f \in Range(required_files) |-> [size |-> 1, mtime |-> t, build |-> 0]]}

InitDisks ==
    {[storage |-> fs # <<>>, files |-> fs, data |-> dt, clock |-> 0, built |-> 0,
      changes |-> 0] :
        fs \in IndexFiles(0),
        dt \in {<<>>, [n \in Range(filenames) |-> 0]}}

ImIdle == [force_rebuild |-> FALSE, pc |-> "idle", attempts |-> 0, index |-> None]

InitIndex ==
    /\ env = <<>>
    /\ stack = <<>>
    /\ lastExit = None
    /\ fi = FlexibleInstrumentation_init
    /\ pipes = <<>>
    /\ tcStack = <<>>
    /\ cache = <<>>
    /\ now = 0
    /\ app = "starting"
    /\ nBuilds = 0
    /\ lastResult = <<>>
    /\ lastBuilt = <<>>
    /\ last = None
    /\ lastChat = None
    /\ req = <<>>
    /\ baseline = None
    /\ lastOp = None
    /\ disk \in InitDisks
    /\ im = ImIdle
    /\ lastLoad = None

otherVars == <<env, scopeVars, fiVars, cacheVars, reqVars>>

\* IndexManager(force_rebuild=...), lines 30-38, up to the call of line 38
NewIndexManager(force_rebuild) ==
    /\ im.pc # "running"
    /\ im' = [force_rebuild |-> force_rebuild, pc |-> "running", attempts |-> 0,
              index |-> None]
    /\ lastLoad' = None
    /\ UNCHANGED <<disk, otherVars>>

\* the retried load_or_create_index without stop_after_attempt: an attempt that
\* raised is always followed by another
Attempt_never_stops(load_fails, fault, written) ==
    /\ im.pc = "running"
    /\ im.attempts <= stop_after_attempt
    /\ \E r \in {load_or_create_index(disk, im.force_rebuild, load_fails, fault, written)} :
           /\ r.disk.built <= MaxIndexBuilds
           /\ disk' = r.disk
           /\ im' = [im EXCEPT !.attempts = @ + 1,
                               !.index = r.index,
                               !.pc = IF ~r.raised THEN "returned" ELSE "running"]
           /\ lastLoad' = Some([before |-> disk, force_rebuild |-> im.force_rebuild,
                                attempt |-> im.attempts + 1,
                                should_rebuild |->
                                    should_rebuild_index(im.force_rebuild, disk),
                                decision |-> r.decision, load_failed |-> r.load_failed,
                                rebuilt |-> r.rebuilt, raised |-> r.raised,
                                index |-> r.index, error |-> r.error])
    /\ UNCHANGED otherVars

\* one attempt of the retried load_or_create_index; after an attempt that
\* raised, tenacity waits and runs the next one unless it was the last
Attempt(load_fails, fault, written) ==
    /\ im.pc = "running"
    /\ \E r \in {load_or_create_index(disk, im.force_rebuild, load_fails, fault, written)} :
           /\ r.disk.built <= MaxIndexBuilds
           /\ disk' = r.disk
           /\ im' = [im EXCEPT !.attempts = @ + 1,
                               !.index = r.index,
                               !.pc = IF ~r.raised THEN "returned"
                                      ELSE IF im.attempts + 1 >= stop_after_attempt
                                           THEN "failed"
                                           ELSE "running"]
           /\ lastLoad' = Some([before |-> disk, force_rebuild |-> im.force_rebuild,
                                attempt |-> im.attempts + 1,
                                should_rebuild |->
                                    should_rebuild_index(im.force_rebuild, disk),
                                decision |-> r.decision, load_failed |-> r.load_failed,
                                rebuilt |-> r.rebuilt, raised |-> r.raised,
                                index |-> r.index, error |-> r.error])
    /\ UNCHANGED otherVars

\* a source document is written (created or modified)
TouchDocument(name) ==
    /\ disk.changes < MaxChanges
    /\ disk' = [disk EXCEPT !.data = [n \in DOMAIN @ \cup {name} |->
                                          IF n = name THEN disk.clock ELSE @[n]],
                            !.changes = @ + 1]
    /\ lastLoad' = None
    /\ UNCHANGED <<im, otherVars>>

\* a source document is removed
RemoveDocument(name) ==
    /\ disk.changes < MaxChanges
    /\ name \in DOMAIN disk.data
    /\ disk' = [disk EXCEPT !.data = [n \in DOMAIN @ \ {name} |-> @[n]],
                            !.changes = @ + 1]
    /\ lastLoad' = None
    /\ UNCHANGED <<im, otherVars>>

\* an index file is truncated to zero size
TruncateIndexFile(f) ==
    /\ disk.changes < MaxChanges
    /\ f \in DOMAIN disk.files
    /\ disk.files[f].size # 0
    /\ disk' = [disk EXCEPT !.files[f].size = 0, !.files[f].mtime = disk.clock,
                            !.changes = @ + 1]
    /\ lastLoad' = None
    /\ UNCHANGED <<im, otherVars>>

\* an index file is removed
RemoveIndexFile(f) ==
    /\ disk.changes < MaxChanges
    /\ f \in DOMAIN disk.files
    /\ disk' = [disk EXCEPT !.files = [g \in DOMAIN @ \ {f} |-> @[g]],
                            !.changes = @ + 1]
    /\ lastLoad' = None
    /\ UNCHANGED <<im, otherVars>>

\* time passes
TickDisk ==
    /\ disk.clock < MaxTime
    /\ disk' = [disk EXCEPT !.clock = @ + 1]
    /\ lastLoad' = None
    /\ UNCHANGED <<im, otherVars>>

\* the load can raise only in an attempt that decides to load, and files are
\* written in part only when persist raises
AttemptStep ==
    /\ im.pc = "running"
    /\ \E load_fails \in IF should_rebuild_index(im.force_rebuild, disk)
                         THEN {FALSE} ELSE BOOLEAN,
          fault \in CreateFaults :
           \E written \in IF fault = "persist" THEN 0 .. Len(persist_order) - 1 ELSE {0} :
               Attempt(load_fails, fault, written)

NextIndex ==
    \/ \E force_rebuild \in BOOLEAN : NewIndexManager(force_rebuild)
    \/ AttemptStep
    \/ \E name \in Range(filenames) : TouchDocument(name)
    \/ \E name \in Range(filenames) : RemoveDocument(name)
    \/ \E f \in Range(required_files) : TruncateIndexFile(f)
    \/ \E f \in Range(required_files) : RemoveIndexFile(f)
    \/ TickDisk

SpecIndex == InitIndex /\ [][NextIndex]_vars

\* the retry loop is a loop of the calling thread with waits of 4 to 10 seconds:
\* the next attempt is always made
SpecIndexLive == SpecIndex /\ WF_vars(AttemptStep)

\* the rules of the rebuild decision, stated on the files
Missing(d) ==
    \/ ~d.storage
    \/ \E f \in Range(required_files) : f \notin DOMAIN d.files \/ d.files[f].size = 0

Oldest(d) ==
    CHOOSE t \in {d.files[f].mtime : f \in Range(required_files)} :
        \A f \in Range(required_files) : t <= d.files[f].mtime

Stale(d) == \E n \in Range(filenames) \cap DOMAIN d.data : d.data[n] > Oldest(d)

MustRebuild(force_rebuild, d) ==
    IF force_rebuild THEN TRUE
    ELSE IF Missing(d) THEN TRUE
    ELSE Stale(d)

C19_LoadFailureFallsThrough ==
    lastLoad # None =>
    LET x == lastLoad[1] IN
    (x.decision = "load" /\ x.load_failed) =>
        /\ x.rebuilt
        /\ x.error # "load"
        /\ x.raised <=> x.error # ""
        /\ x.error = "" =>
               /\ x.index = Some([f \in Range(required_files) |-> disk.built])
               /\ disk.built = x.before.built + 1
               /\ index_of(disk) = x.index[1]
               /\ im.pc = "returned"
               /\ im.index = x.index

C19_Witness ==
    /\ lastLoad # None
    /\ lastLoad[1].decision = "load"
    /\ lastLoad[1].load_failed
    /\ lastLoad[1].rebuilt
    /\ ~lastLoad[1].raised
    /\ im.pc = "returned"

(***************************************************************************)
(* C20: a call of load_or_create_index always ends, by returning an index  *)
(* or by raising to its caller; it makes at most 3 attempts, it raises     *)
(* only after the third attempt raised, and an attempt that succeeds is    *)
(* the last one.                                                           *)
(***************************************************************************)
C20_BoundedRetry ==
    /\ [](/\ im.attempts <= stop_after_attempt
          /\ im.pc = "running" => im.attempts < stop_after_attempt
          /\ im.pc = "failed" =>
                 /\ im.attempts = stop_after_attempt
                 /\ im.index = None
          /\ im.pc = "returned" => im.index # None
          /\ (lastLoad # None /\ ~lastLoad[1].raised) => im.pc = "returned"
          /\ (lastLoad # None /\ lastLoad[1].raised) =>
                 im.pc = IF lastLoad[1].attempt = stop_after_attempt
                         THEN "failed" ELSE "running")
    /\ (im.pc = "running") ~> (im.pc \in {"returned", "failed"})

C20_Witness ==
    /\ im.pc = "failed"
    /\ im.attempts = stop_after_attempt
    /\ lastLoad # None
    /\ lastLoad[1].attempt = stop_after_attempt
    /\ lastLoad[1].raised

\* the three required files are there and were written by one build
OneBuild(d) ==
    \E b \in 0 .. d.built :
        \A f \in Range(required_files) : f \in DOMAIN d.files /\ d.files[f].build = b

(***************************************************************************)
(* C21: after an attempt whose rebuild raised (reading the sources,        *)
(* constructing the index, or part-way through persist), the storage       *)
(* directory holds no set of files that a later load_or_create_index       *)
(* accepts (valid by _index_exists_and_valid and loaded rather than        *)
(* rebuilt) unless the three files come from one build: never a mixture of *)
(* old and new files.                                                      *)
(***************************************************************************)
C21_NoHalfWrittenIndex ==
    lastLoad # None =>
    LET x == lastLoad[1] IN
    (x.rebuilt /\ x.raised /\ OneBuild(x.before)) =>
        (~should_rebuild_index(FALSE, disk) => OneBuild(disk))

(***************************************************************************)
(* assurant-chatbot IndexManager (src/llamaindex_app/index_manager.py):    *)
(* load_or_create_index never loads; it clears the storage directory and   *)
(* creates the index from the PDF files it finds, under the same retry.    *)
(***************************************************************************)
\* line 82
assurant_filenames == <<"AIZ 10K - 2023.pdf", "AIZ 10K - 2024.pdf">>

\* lines 84-99: the files of the list that exist
assurant_pdf_files(d) == SelectSeq(assurant_filenames, LAMBDA name : name \in DOMAIN d.data)

\* line 117
placeholder_doc == "No Assurant 10-K data available. This is a placeholder index."

\* lines 64-70: the storage directory is made, or emptied
clear_storage(d) == [d EXCEPT !.storage = TRUE, !.files = <<>>]

\* one attempt of assurant's load_or_create_index, lines 63-122: the disk
\* afterwards, the index returned (None: it raised) and the documents the
\* index was constructed from
assurant_load_or_create_index(d, fault, written) ==
    LET d1 == clear_storage(d)
        pdf_files == assurant_pdf_files(d1)
        documents == IF pdf_files # <<>> THEN pdf_files ELSE <<placeholder_doc>>
        b == d1.built + 1
        d2 == [d1 EXCEPT !.built = b]
    IN  IF pdf_files # <<>> /\ fault = "load_data"
        THEN [disk |-> d1, index |-> None, raised |-> TRUE, documents |-> <<>>,
              constructed |-> FALSE, error |-> fault]
        ELSE IF fault = "from_documents"
        THEN [disk |-> d1, index |-> None, raised |-> TRUE, documents |-> documents,
              constructed |-> FALSE, error |-> fault]
        ELSE IF fault = "persist"
        THEN [disk |-> persist(d2, b, written), index |-> None, raised |-> TRUE,
              documents |-> documents, constructed |-> TRUE, error |-> fault]
        ELSE [disk |-> persist(d2, b, Len(persist_order)),
              index |-> Some([f \in Range(required_files) |-> b]), raised |-> FALSE,
              documents |-> documents, constructed |-> TRUE, error |-> ""]

InitAssurantDisks ==
    {[storage |-> fs # <<>>, files |-> fs, data |-> dt, clock |-> 0, built |-> 0,
      changes |-> 0] :
        fs \in IndexFiles(0),
        dt \in UNION {[D -> {0}] : D \in SUBSET Range(assurant_filenames)}}

InitAssurant ==
    /\ env = <<>>
    /\ stack = <<>>
    /\ lastExit = None
    /\ fi = FlexibleInstrumentation_init
    /\ pipes = <<>>
    /\ tcStack = <<>>
    /\ cache = <<>>
    /\ now = 0
    /\ app = "starting"
    /\ nBuilds = 0
    /\ lastResult = <<>>
    /\ lastBuilt = <<>>
    /\ last = None
    /\ lastChat = None
    /\ req = <<>>
    /\ baseline = None
    /\ lastOp = None
    /\ disk \in InitAssurantDisks
    /\ im = ImIdle
    /\ lastLoad = None

\* IndexManager(), lines 28-34, up to the call of load_or_create_index
AssurantNewIndexManager ==
    /\ im.pc # "running"
    /\ im' = [force_rebuild |-> FALSE, pc |-> "running", attempts |-> 0, index |-> None]
    /\ lastLoad' = None
    /\ UNCHANGED <<disk, otherVars>>

\* one attempt of the retried load_or_create_index
AssurantAttempt(fault, written) ==
    /\ im.pc = "running"
    /\ \E r \in {assurant_load_or_create_index(disk, fault, written)} :
           /\ r.disk.built <= MaxIndexBuilds + 1
           /\ disk' = r.disk
           /\ im' = [im EXCEPT !.attempts = @ + 1,
                               !.index = r.index,
                               !.pc = IF ~r.raised THEN "returned"
                                      ELSE IF im.attempts + 1 >= stop_after_attempt
                                           THEN "failed"
                                           ELSE "running"]
           /\ lastLoad' = Some([before |-> disk, attempt |-> im.attempts + 1,
                                pdf_files |-> assurant_pdf_files(disk),
                                documents |-> r.documents,
                                constructed |-> r.constructed,
                                raised |-> r.raised, index |-> r.index,
                                error |-> r.error])
    /\ UNCHANGED otherVars

\* load_data is called only when a PDF file was found, and files are written
\* in part only when persist raises
AssurantAttemptStep ==
    \E fault \in IF assurant_pdf_files(disk) = <<>>
                 THEN CreateFaults \ {"load_data"} ELSE CreateFaults :
        \E written \in IF fault = "persist" THEN 0 .. Len(persist_order) - 1 ELSE {0} :
            AssurantAttempt(fault, written)

NextAssurant ==
    \/ AssurantNewIndexManager
    \/ AssurantAttemptStep
    \/ \E name \in Range(assurant_filenames) : TouchDocument(name)
    \/ \E name \in Range(assurant_filenames) : RemoveDocument(name)
    \/ \E f \in Range(required_files) : TruncateIndexFile(f)
    \/ \E f \in Range(required_files) : RemoveIndexFile(f)
    \/ TickDisk

SpecAssurant == InitAssurant /\ [][NextAssurant]_vars

(***************************************************************************)
(* C22: an attempt to rebuild that finds none of its source documents      *)
(* raises, constructs no index and writes no index file to the storage     *)
(* directory.                                                              *)
(***************************************************************************)
C22_NoSourcesNoIndex ==
    lastLoad # None =>
    LET x == lastLoad[1] IN
    x.pdf_files = <<>> =>
        /\ x.raised
        /\ x.index = None
        /\ ~x.constructed
        /\ disk.built = x.before.built
        /\ \A f \in DOMAIN disk.files : disk.files[f].build <= x.before.built

(***************************************************************************)
(* The chat handler of arize-chatbot (backend/main.py 119-159) under every *)
(* override map of a request: keys inside and outside the allow-list,      *)
(* values null, empty, blank and proper.                                   *)
(***************************************************************************)
RequestKeys == <<"PATH", "OPENAI_API_KEY", "ARIZE_MODEL_ID">>
RequestValues == {None, Some(""), Some(" "), Some("m1")}

\* the map that gives the keys of D the values v, in the order of RequestKeys
RequestDict(D, v) ==
    LET sel == SelectSeq([i \in DOMAIN RequestKeys |-> i], LAMBDA i : i \in D)
    IN  [j \in DOMAIN sel |-> <<RequestKeys[sel[j]], v[sel[j]]>>]

RequestOverrides ==
    {None} \cup
    UNION {{Some(RequestDict(D, v)) : v \in [D -> RequestValues]} :
           D \in SUBSET DOMAIN RequestKeys}

\* chat, observed: the override map of the request, os.environ when the
\* handler started and os.environ inside the with block
ObservedChat(request_env_overrides) ==
    /\ chat(request_env_overrides, 0, "none", "response")
    /\ lastExit' =
           Some([request |-> request_env_overrides,
                 entry |-> env,
                 scoped |-> tev_enter(env, validate_env_overrides(request_env_overrides)).env])

NextOverrides ==
    \/ \E fault \in {"none", "Settings"} : ArizeStartup(0, fault)
    \/ \E request_env_overrides \in RequestOverrides : ObservedChat(request_env_overrides)

SpecOverrides == InitArize /\ [][NextOverrides]_vars

\* the items of an override map, and those the allow-list lets through
ItemsOf(overrides) == IF overrides = None THEN <<>> ELSE overrides[1]

Blank(str) == \A j \in 1 .. Len(str) : SubSeq(str, j, j) \in Whitespace

Survives(item) ==
    /\ item[1] \in {"ARIZE_SPACE_ID", "ARIZE_MODEL_ID", "ARIZE_API_KEY", "OPENAI_API_KEY"}
    /\ item[2] # None
    /\ ~Blank(item[2][1])

(***************************************************************************)
(* C23: whatever override map a chat request carries, the keys the handler *)
(* sets through temporary_env_vars are exactly the keys of the allow-list  *)
(* that the map gives a non-null, non-blank value, each set to that value; *)
(* every other key has inside the with block the value it had when the     *)
(* request started; the cache key is computed from the surviving pairs     *)
(* alone; and a map with no surviving pair is handled as no overrides: no  *)
(* key is set and the cache key is "default".                              *)
(***************************************************************************)
C23_OnlyAllowedOverridesApplied ==
    (lastExit # None /\ last # None) =>
    LET x == lastExit[1]
        items == ItemsOf(x.request)
        kept == SelectSeq(items, Survives)
    IN  /\ last[1].envWrites = {kept[i][1] : i \in DOMAIN kept}
        /\ last[1].envWrites \subseteq allowed_vars
        /\ \A i \in DOMAIN kept : os_environ_get(x.scoped, kept[i][1]) = kept[i][2]
        /\ \A k \in (DOMAIN x.scoped \cup DOMAIN x.entry \cup Range(RequestKeys))
                    \ {kept[i][1] : i \in DOMAIN kept} :
               os_environ_get(x.scoped, k) = os_environ_get(x.entry, k)
        /\ last[1].key = IF kept = <<>> THEN "default"
                         ELSE generate_cache_key(Some(kept))
        /\ kept = <<>> <=> last[1].key = "default"

\* a request whose map holds a key outside the allow-list with a proper value
\* and an allowed key with a proper value, and one whose only allowed key is blank
C23_Witness ==
    /\ lastExit # None
    /\ last # None
    /\ \E i, j \in DOMAIN ItemsOf(lastExit[1].request) :
           /\ ItemsOf(lastExit[1].request)[i] = <<"PATH", Some("m1")>>
           /\ ItemsOf(lastExit[1].request)[j] = <<"OPENAI_API_KEY", Some("m1")>>
    /\ last[1].envWrites = {"OPENAI_API_KEY"}
    /\ last[1].key # "default"
    /\ last[1].result = "built"

(***************************************************************************)
(* SessionManager._generate_cache_key (session_manager.py 16-26) called on *)
(* override maps of every content and insertion order, on a cache that     *)
(* cache_components has filled.                                            *)
(***************************************************************************)
KeyMaps ==
    {None} \cup
    {Some(d) : d \in Dicts({"ARIZE_MODEL_ID", "OPENAI_API_KEY", "ARIZE_SPACE_ID"},
                           {Some("m1"), Some("m2")}, MaxOverrides)}

\* session_manager._generate_cache_key(env_vars)
GenerateCacheKey(env_vars) ==
    /\ last' = Some([op |-> "_generate_cache_key", env_vars |-> env_vars,
                     key |-> generate_cache_key(env_vars),
                     cache_before |-> cache])
    /\ UNCHANGED <<indexVars, env, scopeVars, fiVars, reqVars, cache, now, app, nBuilds,
                   lastResult, lastBuilt>>

\* session_manager.cache_components(env_vars, components)
CacheComponents(env_vars) ==
    /\ nBuilds < MaxBuilds
    /\ cache' = cache_components(cache, env_vars, nBuilds + 1, now)
    /\ nBuilds' = nBuilds + 1
    /\ last' = None
    /\ UNCHANGED <<indexVars, env, scopeVars, fiVars, reqVars, now, app, lastResult,
                   lastBuilt>>

NextCacheKey ==
    \/ \E env_vars \in KeyMaps : GenerateCacheKey(env_vars)
    \/ \E env_vars \in ArizeRequests : CacheComponents(env_vars)

SpecCacheKey == InitArize /\ [][NextCacheKey]_vars

PairsOf(env_vars) == Range(ItemsOf(env_vars))

(***************************************************************************)
(* C24: the cache key of an override map depends on its key/value pairs    *)
(* alone: every map with the same pairs, inserted in any order, gets the   *)
(* same key as the map of the call; and the call leaves the cache as it    *)
(* was.                                                                    *)
(***************************************************************************)
C24_CacheKeyOrderInsensitive ==
    (last # None /\ last[1].op = "_generate_cache_key") =>
    LET x == last[1] IN
    /\ \A B \in KeyMaps :
           PairsOf(B) = PairsOf(x.env_vars) => generate_cache_key(B) = x.key
    /\ cache = x.cache_before

\* a call on a map of two pairs inserted in the order opposite to the sorted
\* one, on a cache that holds entries
C24_Witness ==
    /\ last # None
    /\ last[1].op = "_generate_cache_key"
    /\ last[1].env_vars = Some(<< <<"OPENAI_API_KEY", Some("m1")>>,
                                  <<"ARIZE_MODEL_ID", Some("m2")>> >>)
    /\ last[1].key # "default"
    /\ DOMAIN cache # {}

(***************************************************************************)
(* C25: _generate_cache_key returns "default" for None and for the empty   *)
(* map and for no other map; for a map that is not empty it returns 16     *)
(* hexadecimal digits.                                                     *)
(***************************************************************************)
C25_DefaultOnlyForNoOverrides ==
    (last # None /\ last[1].op = "_generate_cache_key") =>
    LET x == last[1] IN
    /\ (x.env_vars = None \/ x.env_vars = Some(<<>>)) => x.key = "default"
    /\ PairsOf(x.env_vars) # {} =>
           /\ x.key # "default"
           /\ Len(x.key) = 16
           /\ \A j \in 1 .. Len(x.key) : SubSeq(x.key, j, j) \in Range(HexDigits)

\* a call on the empty map
C25_Witness ==
    /\ last # None
    /\ last[1].op = "_generate_cache_key"
    /\ last[1].env_vars = Some(<<>>)
    /\ last[1].key = "default"
    /\ DOMAIN cache # {}

(***************************************************************************)
(* C26: when a chat request with the override ARIZE_MODEL_ID = m1 and then *)
(* one with ARIZE_MODEL_ID = m2 have been handled one after the other, the *)
(* manager was configured once for each, with model_id m1 and then m2, and *)
(* the session cache holds two entries, under the two different cache keys *)
(* of the two override maps.  (os.environ never holds ARIZE_MODEL_ID = m1  *)
(* outside a request: a pipeline with model_id m1 is the work of a request *)
(* that carried this override, and the handlers run one after the other.)  *)
(***************************************************************************)
C26_TwoRequestsTwoEntries ==
    LET m1 == Some(<< <<"ARIZE_MODEL_ID", Some("m1")>> >>)
        m2 == Some(<< <<"ARIZE_MODEL_ID", Some("m2")>> >>)
        n == Len(pipes)
    IN  (/\ lastChat # None
         /\ lastChat[1].env_overrides = m2
         /\ lastChat[1].status = 200
         /\ n >= 2
         /\ pipes[n - 1].config.model_id = "m1"
         /\ pipes[n - 1].instrumentor # "unbuilt") =>
            /\ pipes[n].config.model_id = "m2"
            /\ generate_cache_key(m1) # generate_cache_key(m2)
            /\ {generate_cache_key(m1), generate_cache_key(m2)} \subseteq DOMAIN cache

\* os.environ gives key a value that is not blank
Supplies(e, key) == key \in DOMAIN e /\ ~Blank(e[key])

ExitScopeRestoreFails(raised, failAt) ==
    /\ stack # <<>>
    /\ LET scope == stack[Len(stack)] IN
       /\ failAt \in DOMAIN scope.variables_to_restore
       /\ env' = tev_exit_failing(env, scope, failAt)
       /\ lastExit' = Some([overrides |-> scope.overrides,
                            entry |-> scope.entry,
                            before |-> env,
                            raised |-> raised,
                            variables_to_restore |-> scope.variables_to_restore,
                            failed |-> failAt,
                            propagated |-> "restore"])
    /\ stack' = SubSeq(stack, 1, Len(stack) - 1)
    /\ UNCHANGED <<indexVars, fiVars, cacheVars, reqVars>>

NextScopeFaults ==
    \/ \E overrides \in ScopeOverrides : EnterScope(overrides)
    \/ \E key \in ScopeKeys, value \in ScopeValues : BodySet(key, value)
    \/ \E key \in ScopeKeys : BodyDel(key)
    \/ \E raised \in BOOLEAN : ExitScope(raised)
    \/ \E raised \in BOOLEAN, failAt \in 1 .. MaxOverrides :
          ExitScopeRestoreFails(raised, failAt)

SpecScopeFaults == InitScope /\ [][NextScopeFaults]_vars

(***************************************************************************)
(* C28: when the restoration of one key fails on exit from                 *)
(* temporary_env_vars, the failure is not raised: what leaves the with     *)
(* statement is the exception of the body if the body raised one and       *)
(* nothing otherwise, and every other recorded key holds on exit the value *)
(* it had on entry (or is absent if it was absent).                        *)
(***************************************************************************)
C28_RestoreFailureSwallowed ==
    (lastExit # None /\ lastExit[1].failed # 0) =>
        LET x == lastExit[1] IN
        /\ x.propagated = (IF x.raised THEN "body" ELSE "none")
        /\ \A j \in DOMAIN x.variables_to_restore :
              j # x.failed =>
                  os_environ_get(env, x.variables_to_restore[j]) =
                  os_environ_get(x.entry, x.variables_to_restore[j])

\* the result r of configure or reconfigure is what the step recorded in x left
SameResult(r, x) ==
    /\ r.w.env = env
    /\ r.w.fi = fi
    /\ r.w.pipes = pipes
    /\ r.w.calls = x.calls
    /\ r.provider = x.provider
    /\ (r.provider = None) = x.raised

(***************************************************************************)
(* C29: reconfigure(cfg) does what configure(cfg) does.  Started from any  *)
(* manager state and environment, whatever reconfigure did (the manager,   *)
(* the pipelines and os.environ it left, the calls it made and which of    *)
(* them raised, the provider it returned or the fact that it raised) is    *)
(* what configure does from the same state with the same config, and       *)
(* whatever configure did is what reconfigure does.                        *)
(***************************************************************************)
C29_ReconfigureIsConfigure ==
    (lastOp # None /\ lastOp[1].op \in {"configure", "reconfigure"}) =>
        LET x == lastOp[1]
            w == [env |-> x.before.env, fi |-> x.before.fi, pipes |-> x.before.pipes,
                  calls |-> <<>>]
        IN  \E sdFault \in ShutdownFaults(x.before.fi) :
            \E cFault \in ConstructionFaultsOf(x.config[1]) :
                IF x.op = "reconfigure"
                THEN SameResult(fi_configure(w, x.config[1], sdFault, cFault), x)
                ELSE SameResult(fi_reconfigure(w, x.config[1], sdFault, cFault), x)

\* a reconfigure of a configured manager that returned a new provider, and one
\* that raised, are both behind
C29_Witness ==
    /\ lastOp # None
    /\ lastOp[1].op = "reconfigure"
    /\ lastOp[1].before.fi.is_configured
    /\ lastOp[1].provider # None
    /\ lastOp[1].provider # lastOp[1].before.fi.tracer_provider
    /\ lastOp[1].provider = fi.tracer_provider

\* the keys temporary_env_vars(overrides) may write or remove: those of
\* overrides that have a non-null value
WrittenKeys(overrides) ==
    IF not_overrides(overrides) THEN {}
    ELSE {overrides[1][i][1] : i \in {j \in DOMAIN overrides[1] : overrides[1][j][2] # None}}

\* between e1 and e2 only keys of K changed
SameOutside(e1, e2, K) ==
    \A k \in (DOMAIN e1 \cup DOMAIN e2) \ K : os_environ_get(e1, k) = os_environ_get(e2, k)

(***************************************************************************)
(* C30: temporary_env_vars itself writes or removes only the keys of       *)
(* overrides that have a non-null value.  On entry every other key keeps   *)
(* its value; on exit every other key has the value the body left it with; *)
(* with a None or empty override map neither entry nor exit changes        *)
(* os.environ at all.  (A step that pushes a scope is the entry of         *)
(* temporary_env_vars with the overrides the scope records; lastExit is    *)
(* set by the step that leaves a scope and by no other.)                   *)
(***************************************************************************)
C30_OnlyOverrideKeysTouched ==
    [][/\ Len(stack') = Len(stack) + 1 =>
             LET overrides == stack'[Len(stack')].overrides IN
             /\ SameOutside(env, env', WrittenKeys(overrides))
             /\ not_overrides(overrides) => env' = env
       /\ lastExit' # None =>
             /\ SameOutside(lastExit'[1].before, env', WrittenKeys(lastExit'[1].overrides))
             /\ not_overrides(lastExit'[1].overrides) => env' = lastExit'[1].before]_vars

\* a scope was left whose overrides hold a key with a null value and a key with a
\* value, the body having changed the first: it keeps what the body left
C30_Witness ==
    /\ lastExit # None
    /\ ~not_overrides(lastExit[1].overrides)
    /\ \E i, j \in DOMAIN lastExit[1].overrides[1] :
          LET items == lastExit[1].overrides[1]
              x == lastExit[1]
          IN  /\ items[i][2] = None
              /\ items[j][2] # None
              /\ os_environ_get(x.before, items[i][1]) # os_environ_get(x.entry, items[i][1])
              /\ os_environ_get(env, items[i][1]) = os_environ_get(x.before, items[i][1])
              /\ os_environ_get(x.before, items[j][1]) # os_environ_get(env, items[j][1])

(***************************************************************************)
(* Entering a scope when the assignment of one override fails: the         *)
(* exception leaves the with statement from __enter__, no scope is open    *)
(* and the body does not run.                                              *)
(***************************************************************************)
EnterScopeFails(overrides, failAt) ==
    /\ Len(stack) < MaxDepth
    /\ ~not_overrides(overrides)
    /\ failAt \in DOMAIN overrides[1]
    /\ overrides[1][failAt][2] # None
    /\ env' = tev_enter_failing(env, overrides, failAt)
    /\ lastExit' = Some([overrides |-> overrides,
                         entry |-> env,
                         before |-> env,
                         raised |-> FALSE,
                         variables_to_restore |-> <<>>,
                         failed |-> 0,
                         propagated |-> "enter",
                         set_failed |-> failAt,
                         depth |-> Len(stack)])
    /\ UNCHANGED <<indexVars, stack, fiVars, cacheVars, reqVars>>

NextScopeEntry ==
    \/ \E overrides \in ScopeOverrides : EnterScope(overrides)
    \/ \E overrides \in ScopeOverrides, failAt \in 1 .. MaxOverrides :
          EnterScopeFails(overrides, failAt)
    \/ \E key \in ScopeKeys, value \in ScopeValues : BodySet(key, value)
    \/ \E key \in ScopeKeys : BodyDel(key)
    \/ \E raised \in BOOLEAN : ExitScope(raised)

SpecScopeEntry == InitScope /\ [][NextScopeEntry]_vars

(***************************************************************************)
(* C31: when setting the k-th override raises, the body is not run (no     *)
(* scope has been opened) and, when the exception has left                 *)
(* temporary_env_vars, every key set before the k-th and the k-th key      *)
(* itself hold the value they had on entry, or are absent if they were.    *)
(***************************************************************************)
C31_FailedEntryRolledBack ==
    (lastExit # None /\ lastExit[1].propagated = "enter") =>
        LET x == lastExit[1]
            items == x.overrides[1]
        IN  /\ Len(stack) = x.depth
            /\ \A i \in 1 .. x.set_failed :
                  items[i][2] # None =>
                      os_environ_get(env, items[i][1]) = os_environ_get(x.entry, items[i][1])

\* the second override failed after the first had been set to a value the key
\* did not have on entry
C31_Witness ==
    /\ lastExit # None
    /\ lastExit[1].propagated = "enter"
    /\ lastExit[1].set_failed = 2
    /\ lastExit[1].overrides[1][1][2] # None
    /\ os_environ_get(lastExit[1].entry, lastExit[1].overrides[1][1][1]) #
           lastExit[1].overrides[1][1][2]
    /\ env = lastExit[1].entry

(***************************************************************************)
(* Two properly nested scopes: with temporary_env_vars(outer): with        *)
(* temporary_env_vars(inner): body.  The outer body does nothing but run   *)
(* the inner with statement; the inner body reads and writes os.environ at *)
(* will; either body may raise.                                            *)
(***************************************************************************)
InnerValues == {"m2"}

InnerOverrides ==
    {None} \cup
    {Some(d) : d \in Dicts(ScopeKeys, {None} \cup {Some(v) : v \in InnerValues},
                           MaxOverrides)}

EnterOuter(overrides) ==
    /\ stack = <<>>
    /\ LET st == tev_enter(env, overrides) IN
       /\ env' = st.env
       /\ stack' = <<[overrides |-> overrides,
                      entry |-> env,
                      original_values |-> st.original_values,
                      variables_to_restore |-> st.variables_to_restore]>>
    /\ lastExit' = None
    /\ UNCHANGED <<indexVars, fiVars, cacheVars, reqVars>>

EnterInner(overrides) ==
    /\ Len(stack) = 1
    /\ lastExit = None
    /\ LET st == tev_enter(env, overrides) IN
       /\ env' = st.env
       /\ stack' = Append(stack, [overrides |-> overrides,
                                  entry |-> env,
                                  original_values |-> st.original_values,
                                  variables_to_restore |-> st.variables_to_restore])
    /\ lastExit' = None
    /\ UNCHANGED <<indexVars, fiVars, cacheVars, reqVars>>

InnerBodySet(key, value) == Len(stack) = 2 /\ BodySet(key, value)

InnerBodyDel(key) == Len(stack) = 2 /\ BodyDel(key)

NextNested ==
    \/ \E overrides \in ScopeOverrides : EnterOuter(overrides)
    \/ \E overrides \in InnerOverrides : EnterInner(overrides)
    \/ \E key \in ScopeKeys, value \in ScopeValues : InnerBodySet(key, value)
    \/ \E key \in ScopeKeys : InnerBodyDel(key)
    \/ \E raised \in BOOLEAN : ExitScope(raised)

SpecNested == InitScope /\ [][NextNested]_vars

(***************************************************************************)
(* C32: nested scopes restore in LIFO order.  When the inner scope exits,  *)
(* every key K it overrode holds the outer scope's value: the outer        *)
(* override of K if there is one, else what K held when the outer scope    *)
(* was entered (absent if it was absent).  When the outer scope exits,     *)
(* every key it overrode holds its original value or is absent.  This for  *)
(* any two override maps, whatever the inner body did to os.environ and    *)
(* whether the bodies returned or raised.                                  *)
(***************************************************************************)
C32_NestedScopesRestoreLIFO ==
    lastExit # None =>
        LET x == lastExit[1] IN
        \A K \in WrittenKeys(x.overrides) :
            IF stack # <<>>
            THEN LET outer == stack[1] IN
                 os_environ_get(env, K) =
                     IF K \in WrittenKeys(outer.overrides)
                     THEN dict_get(outer.overrides[1], K)
                     ELSE os_environ_get(outer.entry, K)
            ELSE os_environ_get(env, K) = os_environ_get(x.entry, K)

\* an inner scope was left by an exception, both scopes overriding the same key
\* with different values, the inner body having changed the key once more
C32_Witness ==
    /\ lastExit # None
    /\ stack # <<>>
    /\ lastExit[1].raised
    /\ \E K \in WrittenKeys(lastExit[1].overrides) \cap WrittenKeys(stack[1].overrides) :
          /\ dict_get(lastExit[1].overrides[1], K) # dict_get(stack[1].overrides[1], K)
          /\ os_environ_get(lastExit[1].before, K) # dict_get(lastExit[1].overrides[1], K)
          /\ os_environ_get(lastExit[1].before, K) # os_environ_get(env, K)
          /\ os_environ_get(env, K) # os_environ_get(stack[1].entry, K)

(***************************************************************************)
(* C33: in every reachable state of the manager, also after a configure    *)
(* call that raised part-way, its fields agree: is_configured() is true    *)
(* iff a tracer provider is held iff exactly one span processor is held    *)
(* iff an instrumentor is held, and an environment key is recorded only    *)
(* while the manager is configured.                                        *)
(***************************************************************************)
C33_FieldsConsistent ==
    /\ fi.is_configured <=> fi.tracer_provider # None
    /\ fi.is_configured <=> Len(fi.span_processors) = 1
    /\ fi.is_configured <=> fi.langchain_instrumentor # None
    /\ fi.env_var_key # None => fi.is_configured

(***************************************************************************)
(* configure and shutdown in turn, on a process whose environment may hold *)
(* OTEL_EXPORTER_OTLP_TRACES_HEADERS already.  baseline keeps what the     *)
(* last configure call started from.                                       *)
(***************************************************************************)
ObservedConfigure(config, sdFault, cFault) ==
    /\ configure(config, sdFault, cFault)
    /\ baseline' = Some([env |-> env, config |-> config])

NextHeaders ==
    \/ \E config \in ManagerConfigs, sdFault \in ShutdownFaults(fi) :
           \E cFault \in ConstructionFaultsOf(config) :
               ObservedConfigure(config, sdFault, cFault)
    \/ \E sdFault \in ShutdownFaults(fi) : Shutdown(sdFault)

SpecHeaders == InitManager /\ [][NextHeaders]_vars

(***************************************************************************)
(* C34: when configure(cfg) with use_env_headers true has returned and     *)
(* shutdown() has then run without a failing call, the environment key     *)
(* OTEL_EXPORTER_OTLP_TRACES_HEADERS is as it was before configure: absent *)
(* if it was absent, holding its earlier value if it was set.              *)
(***************************************************************************)
C34_HeadersRestoredByShutdown ==
    (/\ lastOp # None
     /\ lastOp[1].op = "shutdown"
     /\ ~lastOp[1].again
     /\ <<"raise", 0>> \notin Range(lastOp[1].calls)
     /\ baseline # None
     /\ baseline[1].config.use_env_headers
     /\ lastOp[1].before.fi.is_configured) =>
        os_environ_get(env, OTEL_HEADERS) = os_environ_get(baseline[1].env, OTEL_HEADERS)

(***************************************************************************)
(* One SessionManager driven by its own operations while the clock runs.   *)
(***************************************************************************)
\* session_manager.cache_components(env_vars, components) at time now
StoreComponents(env_vars) ==
    /\ nBuilds < MaxBuilds
    /\ cache' = cache_components(cache, env_vars, nBuilds + 1, now)
    /\ nBuilds' = nBuilds + 1
    /\ last' = Some([op |-> "cache_components", key |-> generate_cache_key(env_vars),
                     components |-> nBuilds + 1, cache_before |-> cache])
    /\ UNCHANGED <<indexVars, env, scopeVars, fiVars, reqVars, now, app, lastResult,
                   lastBuilt>>

\* session_manager.get_cached_components(env_vars) at time now
LookupComponents(env_vars) ==
    /\ \E g \in {get_cached_components(cache, env_vars, now)} :
          /\ cache' = g.cache
          /\ last' = Some([op |-> "get_cached_components",
                           key |-> generate_cache_key(env_vars),
                           components |-> g.components, cache_before |-> cache])
    /\ UNCHANGED <<indexVars, env, scopeVars, fiVars, reqVars, now, app, nBuilds,
                   lastResult, lastBuilt>>

\* datetime.now() moves on
ClockAdvance ==
    /\ now + MinutesPerTick <= MaxClock
    /\ now' = now + MinutesPerTick
    /\ last' = None
    /\ UNCHANGED <<indexVars, env, scopeVars, fiVars, reqVars, cache, app, nBuilds,
                   lastResult, lastBuilt>>

\* the override maps the handlers pass on: validated ones
SessionMaps == {validate_env_overrides(r) : r \in ArizeRequests}

NextSession ==
    \/ \E env_vars \in SessionMaps : StoreComponents(env_vars)
    \/ \E env_vars \in SessionMaps : LookupComponents(env_vars)
    \/ ClockAdvance

SpecSession == InitArize /\ [][NextSession]_vars

(***************************************************************************)
(* C35: after cache_components returns, no entry of the cache, of any      *)
(* fingerprint, has an age at or above the TTL, and with a positive TTL    *)
(* the cache holds the entry just stored, stamped with the time of the     *)
(* store.                                                                  *)
(***************************************************************************)
C35_InsertSweepsExpired ==
    (last # None /\ last[1].op = "cache_components") =>
        /\ \A key \in DOMAIN cache : now - cache[key].timestamp < cache_ttl_minutes
        /\ cache_ttl_minutes > 0 =>
              /\ last[1].key \in DOMAIN cache
              /\ cache[last[1].key] = [components |-> last[1].components, timestamp |-> now]

\* the store found an expired entry of another fingerprint and one that had not
\* expired: the first is gone, the second is kept
C35_Witness ==
    /\ last # None
    /\ last[1].op = "cache_components"
    /\ \E k1, k2 \in DOMAIN last[1].cache_before \ {last[1].key} :
          /\ now - last[1].cache_before[k1].timestamp >= cache_ttl_minutes
          /\ k1 \notin DOMAIN cache
          /\ now - last[1].cache_before[k2].timestamp < cache_ttl_minutes
          /\ k2 \in DOMAIN cache

(***************************************************************************)
(* C36: every attempt of the retried load_or_create_index takes its        *)
(* rebuild decision from the files as they are when it runs; and when an   *)
(* attempt decided to rebuild and the rebuild failed, the next attempt of  *)
(* the same call (nothing else having touched the files in between) does   *)
(* not return an index loaded from storage.                                *)
(***************************************************************************)
C36_NoFallBackToLoadAfterFailedRebuild ==
    [][(im.pc = "running" /\ lastLoad' # None /\ lastLoad'[1].attempt = im.attempts + 1) =>
          /\ (lastLoad'[1].decision = "rebuild") <=>
                 should_rebuild_index(im.force_rebuild, disk)
          /\ (/\ lastLoad # None
              /\ lastLoad[1].attempt = im.attempts
              /\ lastLoad[1].decision = "rebuild"
              /\ lastLoad[1].raised) =>
                 ~(lastLoad'[1].index # None /\ ~lastLoad'[1].rebuilt)]_vars

(***************************************************************************)
(* C37: load_or_create_index deletes persisted index files only after it   *)
(* has decided to rebuild.  An attempt that finds a persisted index (the   *)
(* three files, none of them empty) offers it to the load path: unless a   *)
(* load was tried and failed, the files it found are still there           *)
(* afterwards, written by the build that had written them.  (The assurant  *)
(* load_or_create_index has no load path, so no load of it ever fails.)    *)
(***************************************************************************)
C37_PresentIndexNotDeleted ==
    lastLoad # None =>
        LET x == lastLoad[1] IN
        index_exists_and_valid(x.before) =>
            \A f \in Range(required_files) :
                /\ f \in DOMAIN disk.files
                /\ disk.files[f].build = x.before.files[f].build

(***************************************************************************)
(* mustang_manual_bot GET /admin/index-status (backend/main.py 296-404).   *)
(* The endpoint does not ask the IndexManager: it looks at the storage     *)
(* directory of Settings().STORAGE_DIR and at the data directory itself,   *)
(* the same two directories the IndexManager uses.                         *)
(***************************************************************************)
\* main.py line 312
status_required_files == <<"default__vector_store.json", "index_store.json", "docstore.json">>

\* main.py lines 324-335: the list of ten manuals, cut to its first two
pdf_filenames == <<"2016-Mustang-Owners-Manual-version-2_om_EN-US_11_2015.pdf",
                   "2017-Ford-Mustang-Owners-Manual-version-2_om_EN-US_EN-CA_12_2016.pdf">>

\* main.py lines 317-321 without the size test: an empty file counts
RECURSIVE status_files_exist(_, _)
status_files_exist(d, i) ==
    IF i > Len(status_required_files) THEN TRUE
    ELSE IF status_required_files[i] \notin DOMAIN d.files THEN FALSE
    ELSE status_files_exist(d, i + 1)

\* main.py lines 317-321: the loop over required_files, from file i on
RECURSIVE status_files_valid(_, _)
status_files_valid(d, i) ==
    IF i > Len(status_required_files) THEN TRUE
    ELSE IF status_required_files[i] \notin DOMAIN d.files
            \/ d.files[status_required_files[i]].size = 0
    THEN FALSE
    ELSE status_files_valid(d, i + 1)

\* main.py lines 350-356: the oldest modification time, from file i on
RECURSIVE status_oldest_index_time(_, _, _)
status_oldest_index_time(d, i, oldest) ==
    IF i > Len(status_required_files) THEN oldest
    ELSE LET file_name == status_required_files[i] IN
         IF file_name \in DOMAIN d.files
            /\ (oldest = None \/ d.files[file_name].mtime < oldest[1])
         THEN status_oldest_index_time(d, i + 1, Some(d.files[file_name].mtime))
         ELSE status_oldest_index_time(d, i + 1, oldest)

\* main.py lines 358-365: some PDF file found is newer than t
RECURSIVE status_any_pdf_newer(_, _, _)
status_any_pdf_newer(d, pdf_files, t) ==
    IF pdf_files = <<>> THEN FALSE
    ELSE IF Head(pdf_files) \in DOMAIN d.data /\ d.data[Head(pdf_files)] > t THEN TRUE
    ELSE status_any_pdf_newer(d, Tail(pdf_files), t)

\* the endpoint with index_exists computed without the size test
index_status_ignores_size(d) ==
    LET index_exists == IF ~d.storage THEN FALSE ELSE status_files_exist(d, 1)
        pdf_files == SelectSeq(pdf_filenames, LAMBDA name : name \in DOMAIN d.data)
        oldest == status_oldest_index_time(d, 1, None)
    IN  [index_exists |-> index_exists,
         should_rebuild |-> IF ~index_exists THEN TRUE
                            ELSE IF oldest # None
                            THEN status_any_pdf_newer(d, pdf_files, oldest[1])
                            ELSE FALSE,
         pdf_files_found |-> Len(pdf_files)]

\* index_status, main.py lines 296-400: what it reports of the disk d
index_status(d) ==
    LET index_exists == IF ~d.storage THEN FALSE ELSE status_files_valid(d, 1)
        pdf_files == SelectSeq(pdf_filenames, LAMBDA name : name \in DOMAIN d.data)
        oldest == status_oldest_index_time(d, 1, None)
    IN  [index_exists |-> index_exists,
         should_rebuild |-> IF ~index_exists THEN TRUE
                            ELSE IF oldest # None
                            THEN status_any_pdf_newer(d, pdf_files, oldest[1])
                            ELSE FALSE,
         pdf_files_found |-> Len(pdf_files)]

\* GET /admin/index-status
IndexStatus ==
    /\ lastLoad' = Some([op |-> "index_status", status |-> index_status(disk)])
    /\ UNCHANGED <<disk, im, otherVars>>

NextIndexStatus ==
    \/ \E force_rebuild \in BOOLEAN : NewIndexManager(force_rebuild)
    \/ AttemptStep
    \/ \E name \in Range(filenames) : TouchDocument(name)
    \/ \E name \in Range(filenames) : RemoveDocument(name)
    \/ \E f \in Range(required_files) : TruncateIndexFile(f)
    \/ \E f \in Range(required_files) : RemoveIndexFile(f)
    \/ TickDisk
    \/ IndexStatus

SpecIndexStatus == InitIndex /\ [][NextIndexStatus]_vars

\* lastLoad holds the report of the endpoint on the disk as it is now
StatusReported == lastLoad # None /\ "op" \in DOMAIN lastLoad[1]

(***************************************************************************)
(* C38: for every state of the storage directory and of the source         *)
(* documents, /admin/index-status reports index_exists and should_rebuild  *)
(* with the values IndexManager._index_exists_and_valid and                *)
(* IndexManager._should_rebuild_index (force_rebuild false) compute on     *)
(* that state.                                                             *)
(***************************************************************************)
C38_StatusAgreesWithManager ==
    StatusReported =>
        /\ lastLoad[1].status.index_exists = index_exists_and_valid(disk)
        /\ lastLoad[1].status.should_rebuild = should_rebuild_index(FALSE, disk)

\* the endpoint reported a complete index that is older than a source document
C38_Witness ==
    /\ StatusReported
    /\ lastLoad[1].status.index_exists
    /\ lastLoad[1].status.should_rebuild
    /\ disk.built > 0

(***************************************************************************)
(* IndexManager.rebuild_index (index_manager.py 225-232), called on a      *)
(* manager whose __init__ has returned.                                    *)
(***************************************************************************)
\* rebuild_index(): the flag is set, _create_new_index runs, the flag is cleared
\* by the statement after it
RebuildIndex(fault, written) ==
    /\ im.pc = "returned"
    /\ \E r \in {create_new_index(disk, fault, written)} :
           /\ r.disk.built <= MaxIndexBuilds + 1
           /\ disk' = r.disk
           /\ im' = IF r.index = None
                    THEN [im EXCEPT !.force_rebuild = TRUE]
                    ELSE [im EXCEPT !.force_rebuild = FALSE, !.index = r.index]
           /\ lastLoad' = Some([op |-> "rebuild_index", before |-> disk,
                                raised |-> r.index = None, index |-> r.index,
                                error |-> r.error])
    /\ UNCHANGED otherVars

RebuildStep ==
    \E fault \in CreateFaults :
        \E written \in IF fault = "persist" THEN 0 .. Len(persist_order) - 1 ELSE {0} :
            RebuildIndex(fault, written)

NextRebuild ==
    \/ \E force_rebuild \in BOOLEAN : NewIndexManager(force_rebuild)
    \/ AttemptStep
    \/ \E name \in Range(filenames) : TouchDocument(name)
    \/ \E name \in Range(filenames) : RemoveDocument(name)
    \/ \E f \in Range(required_files) : TruncateIndexFile(f)
    \/ \E f \in Range(required_files) : RemoveIndexFile(f)
    \/ TickDisk
    \/ RebuildStep

SpecRebuild == InitIndex /\ [][NextRebuild]_vars

(***************************************************************************)
(* C39: after rebuild_index() has finished, by returning or by raising,    *)
(* the manager's force_rebuild flag is false.                              *)
(***************************************************************************)
C39_ForceRebuildCleared ==
    (lastLoad # None /\ "op" \in DOMAIN lastLoad[1] /\ lastLoad[1].op = "rebuild_index") =>
        ~im.force_rebuild

====
